---- MODULE Spec2Model ----
(***************************************************************************)
(* Model of the vtest server core (src/vtest/vtest_renderer.c): the        *)
(* timeline ("sync") store, the per-context sync queues released by        *)
(* renderer context fences, the sync waits notified through event fds,     *)
(* and the framed command handlers that drive them.                        *)
(*                                                                         *)
(* Scaling.  TLC integers are 32 bits wide, so a protocol word            *)
(* (uint32_t) is modelled as a WordBits-bit word and a timeline value      *)
(* (uint64_t) as two such words; every wrap-around of the C arithmetic     *)
(* is kept, modulo WordMod instead of 2^32.  The 64 sync queues of a       *)
(* context are scaled to NumSyncQueues, and the monotonic clock counts     *)
(* milliseconds instead of nanoseconds.                                    *)
(***************************************************************************)
EXTENDS Integers, Sequences, FiniteSets, TLC

\* ------------------------------------------------------------------ bounds
WordBits == 8            \* bits of a protocol word; even, so that
                        \* WordMod % 3 = 1 as 2^32 % 3 = 1
NumSyncQueues == 2      \* VTEST_MAX_SYNC_QUEUE_COUNT (64) scaled
MaxContexts == 2        \* context records ever allocated
MaxClients == 1         \* connections a one-client run holds open at a time
MaxSyncs == 2           \* sync records ever allocated
MaxSubmits == 2         \* heap addresses a queue submit can live at
MaxWaits == 2           \* event fds open at the same time
MaxTime == 2            \* last value of the monotonic clock
MaxImplicit == 2        \* implicit fences ever submitted
MaxResources == 2       \* vtest_resource records ever allocated

WordMod == 2 ^ WordBits
UINT_MAX == WordMod - 1
INT32_MAX == (WordMod \div 2) - 1
UINT64_MAX == WordMod * WordMod - 1

VTEST_MAX_SYNC_QUEUE_COUNT == NumSyncQueues
VCMD_SYNC_WAIT_FLAG_ANY == 1
VCMD_SUBMIT_CMD2_FLAG_SYNC_QUEUE == 1
VCMD_BUSY_WAIT_FLAG_WAIT == 1
VTEST_PROTOCOL_VERSION == 3
ns_per_ms == 1

NULL == 0
CtxIds == 1 .. MaxContexts
SyncIds == 1 .. MaxSyncs
Addrs == 1 .. MaxSubmits
ResAddrs == 1 .. MaxResources
Fds == 1 .. MaxWaits
QueueIdx == 0 .. (VTEST_MAX_SYNC_QUEUE_COUNT - 1)

\* ------------------------------------------------------------------- state
VARIABLES
    max_length,                 \* renderer.max_length
    implicit_fence_submitted,   \* renderer.implicit_fence_submitted
    implicit_fence_completed,   \* renderer.implicit_fence_completed
    implicit_pending,           \* implicit fence ids the renderer has not completed
    active_contexts,            \* renderer.active_contexts, in list order
    free_contexts,              \* renderer.free_contexts, head first
    next_context_id,            \* renderer.next_context_id
    syncs,                      \* the vtest_sync records, by sync_id
    free_syncs,                 \* renderer.free_syncs, head first
    next_sync_id,               \* renderer.next_sync_id
    sync_table,                 \* ctx->sync_table: the sync ids it holds
    sync_queues,                \* ctx->sync_queues[i].submits: addresses, head first
    submits,                    \* the heap: vtest_sync_queue_submit by address
    fences,                     \* context fences the renderer has not completed
    sync_waits,                 \* ctx->sync_waits, in list order
    now,                        \* CLOCK_MONOTONIC
    ev,                         \* what the last handler or callback did
    hdr,                        \* length_dw in the header of the last frame
    shadow,                     \* last value a client wrote to each sync
    multi_clients,              \* renderer.multi_clients
    protocol_version,           \* ctx->protocol_version, by ctx_id
    capset_id,                  \* ctx->capset_id, by ctx_id
    context_initialized,        \* ctx->context_initialized, by ctx_id
    busy_wait,                  \* the RESOURCE_BUSY_WAIT handler blocked in its
                                \* poll loop, or NULL
    client_error,               \* contexts whose handler returned an error
    current_context,            \* renderer.current_context: a ctx_id, or NULL
    resources,                  \* the heap: vtest_resource by address
    free_resources,             \* renderer.free_resources, head first
    next_resource_id,           \* renderer.next_resource_id
    resource_table              \* ctx->resource_table: the records it holds

vars == << max_length, implicit_fence_submitted, implicit_fence_completed,
           implicit_pending, active_contexts, free_contexts, next_context_id,
           syncs, free_syncs, next_sync_id, sync_table, sync_queues, submits,
           fences, sync_waits, now, ev, hdr, shadow, multi_clients,
           protocol_version, capset_id, context_initialized, busy_wait,
           client_error, current_context, resources, free_resources,
           next_resource_id, resource_table >>

\* The negotiated fields of the context records.
CtxFields == << protocol_version, capset_id, context_initialized >>

\* The resource records, their free list and the contexts' tables.
ResourceVars == << resources, free_resources, next_resource_id, resource_table >>

\* The server's mode, the handler blocked in a poll loop and the
\* connections that have failed.
ServerMode == << multi_clients, busy_wait, client_error >>

\* What no sync, queue or fence handler touches.
ServerVars == << ServerMode, ResourceVars, current_context >>

\* The renderer's counters, lists, heap and clock.
RendererVars == << max_length, implicit_fence_submitted, implicit_fence_completed,
                   implicit_pending, active_contexts, free_contexts,
                   next_context_id, syncs, free_syncs, next_sync_id, sync_table,
                   sync_queues, submits, fences, sync_waits, now >>

\* -------------------------------------------------------------- sequences
RemoveAt(s, i) == SubSeq(s, 1, i - 1) \o SubSeq(s, i + 1, Len(s))

SeqToSet(s) == { s[i] : i \in 1 .. Len(s) }

RECURSIVE Flatten(_)
Flatten(ss) == IF ss = << >> THEN << >> ELSE Head(ss) \o Flatten(Tail(ss))

Min(S) == CHOOSE x \in S : \A y \in S : x <= y

\* -------------------------------------------------------------- wire codec
\* value = data[1] | (uint64_t)data[2] << 32
DecodeValue(lo, hi) == lo + hi * WordMod

\* (uint32_t)sync->value
ValueLo(value) == value % WordMod

\* (uint32_t)(sync->value >> 32)
ValueHi(value) == (value \div WordMod) % WordMod

\* vtest_sync_decode_id_and_value: data += index * 3 (index is 0-based;
\* the TLA+ sequence is 1-based)
vtest_sync_decode_id_and_value(data, index) ==
    [ sync_id |-> data[index * 3 + 1],
      value   |-> DecodeValue(data[index * 3 + 2], data[index * 3 + 3]) ]

\* ------------------------------------------------------------ blank values
NoSync == [ refcount |-> 0, value |-> 0 ]

\* A heap cell: a live submit, or memory that is not allocated.
NoSubmit == [ state |-> "free", ctx |-> 0, q |-> 0,
              syncs |-> << >>, values |-> << >> ]

\* A vtest_resource record that was never allocated.
NoResource == [ alloc |-> FALSE, server_res_id |-> 0, res_id |-> 0, iov_len |-> 0 ]

\* No handler is in a poll loop.
NoBusyWait == [ ctx |-> NULL, req |-> << >>, write_ok |-> FALSE ]

NoEv == [ op |-> "init", ctx |-> 0, arg |-> 0, ret |-> "OK", resp |-> << >>,
          nread |-> 0, req |-> << >>,
          written |-> << >>, signals |-> << >>, collected |-> << >>,
          rcalls |-> << >>,
          popped |-> << >>, stale |-> FALSE,
          freed |-> [ submits |-> << >>, waits |-> << >> ] ]

\* ------------------------------------------------------------------- syncs
\* The part of the state the sync helpers thread through a handler.
SyncState == [ syncs |-> syncs, free_syncs |-> free_syncs,
               waits |-> sync_waits, written |-> << >>, signals |-> << >>,
               collected |-> << >> ]

vtest_ref_sync(st, s) == [st EXCEPT !.syncs[s].refcount = @ + 1]

\* An unref that never returns the sync to the free list.
vtest_unref_sync_keep(st, s) == [st EXCEPT !.syncs[s].refcount = @ - 1]

\* An unref that hands the sync to the free list while holders remain.
vtest_unref_sync_early(st, s) == [st EXCEPT !.syncs[s].refcount = @ - 1, !.free_syncs = << s >> \o @]

vtest_unref_sync(st, s) ==
    LET rc == st.syncs[s].refcount - 1 IN
    IF rc # 0
    THEN [st EXCEPT !.syncs[s].refcount = rc]
    ELSE [st EXCEPT !.syncs[s].refcount = rc, !.free_syncs = << s >> \o @]

RECURSIVE UnrefSlots(_, _, _)
UnrefSlots(st, slots, i) ==
    IF i > Len(slots) THEN st
    ELSE IF slots[i] # NULL
         THEN UnrefSlots(vtest_unref_sync(st, slots[i]), slots, i + 1)
         ELSE UnrefSlots(st, slots, i + 1)

\* vtest_free_sync_wait: unref the non-null slots, close(wait->fd)
vtest_free_sync_wait(st, wait) == UnrefSlots(st, wait.syncs, 1)

\* vtest_free_sync_queue_submit, on the first `count` slots
RECURSIVE UnrefFirst(_, _, _, _)
UnrefFirst(st, slots, count, i) ==
    IF i > count THEN st
    ELSE UnrefFirst(vtest_unref_sync(st, slots[i]), slots, count, i + 1)

vtest_free_sync_queue_submit(st, slots, count) == UnrefFirst(st, slots, count, 1)

FlagAny(flags) == (flags % 2) = VCMD_SYNC_WAIT_FLAG_ANY

\* What write_ready(wait->fd) makes observable: the fd, the request the
\* wait was registered with, and each requested sync's value at this moment.
WriteEvent(st, wait) ==
    [ fd |-> wait.fd, flags |-> wait.flags, req |-> wait.req,
      vals |-> [ i \in 1 .. Len(wait.req) |-> st.syncs[wait.req[i].sync].value ],
      pending |-> wait.syncs ]

\* A notification that is sent twice.
write_ready_twice(st, wait) ==
    [st EXCEPT !.written = Append(Append(@, WriteEvent(st, wait)),
                                  WriteEvent(st, wait))]

write_ready(st, wait) == [st EXCEPT !.written = Append(@, WriteEvent(st, wait))]

\* A slot loop that clears a reached slot without counting it.
RECURSIVE ScanWaitUncounted(_, _, _, _, _)
ScanWaitUncounted(st, wait, s, value, i) ==
    IF i > wait.count
    THEN [ st |-> st, wait |-> wait, is_ready |-> FALSE ]
    ELSE IF wait.syncs[i] # s \/ wait.values[i] > value
    THEN ScanWaitUncounted(st, wait, s, value, i + 1)
    ELSE LET st1 == vtest_unref_sync(st, wait.syncs[i])
             w1  == [wait EXCEPT !.syncs[i] = NULL]
         IN  IF w1.signaled_count = w1.count \/ FlagAny(w1.flags)
             THEN [ st |-> st1, wait |-> w1, is_ready |-> TRUE ]
             ELSE ScanWaitUncounted(st1, w1, s, value, i + 1)

\* A slot loop that takes a slot of any sync for the signalled one.
RECURSIVE ScanWaitAnySync(_, _, _, _, _)
ScanWaitAnySync(st, wait, s, value, i) ==
    IF i > wait.count
    THEN [ st |-> st, wait |-> wait, is_ready |-> FALSE ]
    ELSE IF wait.syncs[i] = NULL \/ wait.values[i] > value
    THEN ScanWaitAnySync(st, wait, s, value, i + 1)
    ELSE LET st1 == vtest_unref_sync(st, wait.syncs[i])
             w1  == [wait EXCEPT !.syncs[i] = NULL, !.signaled_count = @ + 1]
         IN  IF w1.signaled_count = w1.count \/ FlagAny(w1.flags)
             THEN [ st |-> st1, wait |-> w1, is_ready |-> TRUE ]
             ELSE ScanWaitAnySync(st1, w1, s, value, i + 1)

\* The slot loop of vtest_signal_sync (lines 1716-1729) on one wait.
RECURSIVE ScanWait(_, _, _, _, _)
ScanWait(st, wait, s, value, i) ==
    IF i > wait.count
    THEN [ st |-> st, wait |-> wait, is_ready |-> FALSE ]
    ELSE IF wait.syncs[i] # s \/ wait.values[i] > value
    THEN ScanWait(st, wait, s, value, i + 1)
    ELSE LET st1 == vtest_unref_sync(st, wait.syncs[i])
             w1  == [wait EXCEPT !.syncs[i] = NULL, !.signaled_count = @ + 1]
         IN  IF w1.signaled_count = w1.count \/ FlagAny(w1.flags)
             THEN [ st |-> st1, wait |-> w1, is_ready |-> TRUE ]
             ELSE ScanWait(st1, w1, s, value, i + 1)

\* A walk that takes no wait to be past its deadline.
PastDeadlineNever(wait, t) == FALSE

\* line 1709: wait->valid_before < now
PastDeadline(wait, t) == wait.valid_before < t

\* LIST_FOR_EACH_ENTRY_SAFE(wait, tmp, &ctx->sync_waits, head)
RECURSIVE WalkWaits(_, _, _, _, _, _)

\* A walk that leaves a ready wait on the list, unwritten.
WaitScannedKept(r, c, s, value, t, i) ==
    WalkWaits([r.st EXCEPT !.waits[c][i] = r.wait], c, s, value, t, i + 1)

\* if (is_ready) { list_del; write_ready; vtest_free_sync_wait }, r being
\* what the slot loop left of the wait at position i
WaitScanned(r, c, s, value, t, i) ==
    IF r.is_ready
    THEN WalkWaits(vtest_free_sync_wait(
                       write_ready([r.st EXCEPT !.waits[c] = RemoveAt(@, i)], r.wait),
                       r.wait),
                   c, s, value, t, i)
    ELSE WalkWaits([r.st EXCEPT !.waits[c][i] = r.wait], c, s, value, t, i + 1)

WalkWaits(st, c, s, value, t, i) ==
    IF i > Len(st.waits[c]) THEN st
    ELSE IF PastDeadline(st.waits[c][i], t)
         THEN \* garbage collect
              WalkWaits(vtest_free_sync_wait(
                            [st EXCEPT !.waits[c] = RemoveAt(@, i),
                                       !.collected = Append(@, st.waits[c][i].fd)],
                            st.waits[c][i]),
                        c, s, value, t, i)
         ELSE WaitScanned(ScanWait(st, st.waits[c][i], s, value, 1), c, s, value, t, i)

\* LIST_FOR_EACH_ENTRY(ctx, &renderer.active_contexts, head)
RECURSIVE WalkContexts(_, _, _, _, _, _)
WalkContexts(st, ctxs, s, value, t, k) ==
    IF k > Len(ctxs) THEN st
    ELSE WalkContexts(WalkWaits(st, ctxs[k], s, value, t, 1),
                      ctxs, s, value, t, k + 1)

vtest_signal_sync_keep_larger(st, s, value) ==
    LET st0 == [st EXCEPT !.signals = Append(@, [sync |-> s, value |-> value])] IN
    IF st0.syncs[s].value >= value
    THEN st0
    ELSE WalkContexts([st0 EXCEPT !.syncs[s].value = value],
                      active_contexts, s, value, now, 1)

vtest_signal_sync(st, s, value) ==
    LET st0 == [st EXCEPT !.signals = Append(@, [sync |-> s, value |-> value])] IN
    IF st0.syncs[s].value >= value
    THEN [st0 EXCEPT !.syncs[s].value = value]
    ELSE WalkContexts([st0 EXCEPT !.syncs[s].value = value],
                      active_contexts, s, value, now, 1)

\* A test that lets every frame through.
TooLongNever(length_dw) == FALSE

\* length_dw > renderer.max_length / 4
TooLong(length_dw) == length_dw > max_length \div 4

\* ------------------------------------------------------- ghost bookkeeping
\* A requested (sync, threshold) pair is dead once its sync record has been
\* freed: the id may then name a different timeline.
MarkDead(waits, sy) ==
    [ c \in CtxIds |->
        [ i \in 1 .. Len(waits[c]) |->
            [ waits[c][i] EXCEPT !.req =
                [ j \in 1 .. Len(@) |->
                    [ @[j] EXCEPT !.dead = @ \/ sy[waits[c][i].req[j].sync].refcount = 0 ] ] ] ] ]

\* Writes the sync part of the state back after a handler.
Commit(st) ==
    /\ syncs' = st.syncs
    /\ free_syncs' = st.free_syncs
    /\ sync_waits' = MarkDead(st.waits, st.syncs)

\* A handler that returns 0 after its work on the sync state.
Done(op, c, nread, st) ==
    /\ Commit(st)
    /\ ev' = [ NoEv EXCEPT !.op = op, !.ctx = c, !.nread = nread,
                           !.written = st.written, !.signals = st.signals,
                           !.collected = st.collected ]

Event(op, c, ret, resp, nread, st) ==
    [ NoEv EXCEPT !.op = op, !.ctx = c, !.ret = ret, !.resp = resp,
                  !.nread = nread, !.written = st.written, !.signals = st.signals,
                  !.collected = st.collected ]

\* ctx->input->read(ctx->input, buf, n * 4) == n * 4
ReadOk(buf, n) == Len(buf) >= n

\* ---------------------------------------------------------------- contexts
EmptyQueues == [ q \in QueueIdx |-> << >> ]

\* vtest_new_context: a recycled record keeps its ctx_id
vtest_new_context ==
    IF free_contexts = << >>
    THEN [ ctx_id |-> next_context_id, free |-> free_contexts,
           next |-> next_context_id + 1 ]
    ELSE [ ctx_id |-> Head(free_contexts), free |-> Tail(free_contexts),
           next |-> next_context_id ]

\* A record that keeps what its last connection negotiated.
ResetCtxFieldsKept(c) == UNCHANGED CtxFields

\* vtest_new_context: protocol_version = 0, capset_id = 0,
\* context_initialized = false, on a new and on a recycled record
ResetCtxFields(c) ==
    /\ protocol_version' = [protocol_version EXCEPT ![c] = 0]
    /\ capset_id' = [capset_id EXCEPT ![c] = 0]
    /\ context_initialized' = [context_initialized EXCEPT ![c] = FALSE]

\* A server that takes a name of any length.
NameTooLongNever(length) == FALSE

\* if (length > 1024 * 1024) return -1;
NameTooLong(length) == length > 1024 * 1024

\* vtest_create_context(input, out_fd, length, &ctx); `name` is what the
\* input stream still holds, ev.req the length asked for and ev.arg what
\* *out_ctx is set to.
vtest_create_context(length, name) ==
    /\ free_contexts # << >> \/ next_context_id <= MaxContexts
    /\ LET n == vtest_new_context IN
       IF NameTooLong(length)
       THEN /\ ev' = [NoEv EXCEPT !.op = "create_context", !.ret = "ERR",
                                  !.req = << length >>]
            /\ UNCHANGED << active_contexts, free_contexts, next_context_id, submits >>
            /\ UNCHANGED CtxFields
       ELSE IF ~ReadOk(name, length)
       THEN \* err: vtest_free_context(ctx, false)
            /\ ev' = [NoEv EXCEPT !.op = "create_context", !.ctx = n.ctx_id,
                                  !.ret = "ERR", !.req = << length >>]
            /\ free_contexts' = << n.ctx_id >> \o n.free
            /\ next_context_id' = n.next
            /\ submits' = submits
            /\ UNCHANGED active_contexts
            /\ ResetCtxFields(n.ctx_id)
       ELSE /\ ev' = [NoEv EXCEPT !.op = "create_context", !.ctx = n.ctx_id,
                                  !.nread = length, !.req = << length >>,
                                  !.arg = n.ctx_id]
            /\ active_contexts' = Append(active_contexts, n.ctx_id)
            /\ free_contexts' = n.free
            /\ next_context_id' = n.next
            /\ submits' = submits
            /\ ResetCtxFields(n.ctx_id)
    /\ UNCHANGED << max_length, implicit_fence_submitted, implicit_fence_completed,
                    implicit_pending, syncs, free_syncs, next_sync_id, sync_table,
                    sync_queues, fences, sync_waits, now >>

\* ------------------------------------------------------------- sync store
\* vtest_new_sync(value)
vtest_new_sync(value) ==
    IF free_syncs = << >>
    THEN [ sync_id |-> next_sync_id, free |-> free_syncs, next |-> next_sync_id + 1 ]
    ELSE [ sync_id |-> Head(free_syncs), free |-> Tail(free_syncs),
           next |-> next_sync_id ]

\* vtest_sync_create(length_dw): payload value_lo, value_hi
vtest_sync_create(c, length_dw, buf, write_ok) ==
    /\ free_syncs # << >> \/ next_sync_id <= MaxSyncs
    /\ IF ~ReadOk(buf, 2)
       THEN /\ ev' = [NoEv EXCEPT !.op = "sync_create", !.ctx = c, !.ret = "ERR"]
            /\ UNCHANGED << syncs, free_syncs, next_sync_id, sync_table >>
       ELSE LET value == DecodeValue(buf[1], buf[2])
                n == vtest_new_sync(value)
                sy == [syncs EXCEPT ![n.sync_id] = [ refcount |-> 1, value |-> value ]]
            IN  /\ next_sync_id' = n.next
                /\ IF write_ok
                   THEN /\ syncs' = sy
                        /\ free_syncs' = n.free
                        /\ sync_table' = [sync_table EXCEPT ![c] = @ \cup { n.sync_id }]
                        /\ ev' = [NoEv EXCEPT !.op = "sync_create", !.ctx = c,
                                              !.nread = 2, !.resp = << n.sync_id >>]
                   ELSE \* vtest_unref_sync(sync): back on the free list
                        /\ syncs' = [sy EXCEPT ![n.sync_id].refcount = 0]
                        /\ free_syncs' = << n.sync_id >> \o n.free
                        /\ sync_table' = sync_table
                        /\ ev' = [NoEv EXCEPT !.op = "sync_create", !.ctx = c,
                                              !.nread = 2, !.ret = "EIO"]
    /\ UNCHANGED << max_length, implicit_fence_submitted, implicit_fence_completed,
                    implicit_pending, active_contexts, free_contexts,
                    next_context_id, sync_queues, submits, fences, sync_waits, now >>

\* vtest_sync_unref(length_dw): util_hash_table_remove runs sync_destroy_func
vtest_sync_unref(c, length_dw, buf) ==
    /\ IF ~ReadOk(buf, 1)
       THEN /\ ev' = [NoEv EXCEPT !.op = "sync_unref", !.ctx = c, !.ret = "ERR"]
            /\ UNCHANGED << syncs, free_syncs, sync_table, sync_waits >>
       ELSE LET sync_id == buf[1]
                st == IF sync_id \in sync_table[c]
                      THEN vtest_unref_sync(SyncState, sync_id)
                      ELSE SyncState
            IN  /\ Commit(st)
                /\ sync_table' = [sync_table EXCEPT ![c] = @ \ { sync_id }]
                /\ ev' = Event("sync_unref", c, "OK", << >>, 1, st)
    /\ UNCHANGED << max_length, implicit_fence_submitted, implicit_fence_completed,
                    implicit_pending, active_contexts, free_contexts,
                    next_context_id, next_sync_id, sync_queues, submits, fences, now >>

\* vtest_sync_read(length_dw)
vtest_sync_read(c, length_dw, buf) ==
    /\ IF ~ReadOk(buf, 1)
       THEN ev' = [NoEv EXCEPT !.op = "sync_read", !.ctx = c, !.ret = "ERR"]
       ELSE LET sync_id == buf[1] IN
            IF sync_id \notin sync_table[c]
            THEN ev' = [NoEv EXCEPT !.op = "sync_read", !.ctx = c, !.nread = 1,
                                    !.arg = sync_id, !.ret = "EEXIST"]
            ELSE ev' = [NoEv EXCEPT !.op = "sync_read", !.ctx = c, !.nread = 1,
                                    !.arg = sync_id,
                                    !.resp = << ValueLo(syncs[sync_id].value),
                                                ValueHi(syncs[sync_id].value) >>]
    /\ UNCHANGED << max_length, implicit_fence_submitted, implicit_fence_completed,
                    implicit_pending, active_contexts, free_contexts,
                    next_context_id, syncs, free_syncs, next_sync_id, sync_table,
                    sync_queues, submits, fences, sync_waits, now >>

\* vtest_sync_write(length_dw): payload sync_id, value_lo, value_hi
vtest_sync_write(c, length_dw, buf) ==
    /\ IF ~ReadOk(buf, 3)
       THEN /\ ev' = [NoEv EXCEPT !.op = "sync_write", !.ctx = c, !.ret = "ERR"]
            /\ UNCHANGED << syncs, free_syncs, sync_waits >>
       ELSE LET d == vtest_sync_decode_id_and_value(buf, 0) IN
            IF d.sync_id \notin sync_table[c]
            THEN /\ ev' = [NoEv EXCEPT !.op = "sync_write", !.ctx = c, !.nread = 3,
                                       !.arg = d.sync_id, !.ret = "EEXIST"]
                 /\ UNCHANGED << syncs, free_syncs, sync_waits >>
            ELSE Done("sync_write", c, 3,
                      vtest_signal_sync(SyncState, d.sync_id, d.value))
    /\ UNCHANGED << max_length, implicit_fence_submitted, implicit_fence_completed,
                    implicit_pending, active_contexts, free_contexts,
                    next_context_id, next_sync_id, sync_table, sync_queues,
                    submits, fences, now >>

\* --------------------------------------------------------------- sync wait
\* vtest_gettime(offset_ms)
vtest_gettime(offset_ms) ==
    IF offset_ms > INT32_MAX THEN UINT64_MAX ELSE now + ns_per_ms * offset_ms

\* eventfd(): the lowest descriptor no pending wait holds; NULL when none is left
OpenFds == UNION { { sync_waits[c][i].fd : i \in 1 .. Len(sync_waits[c]) } : c \in CtxIds }
eventfd == IF Fds \ OpenFds = { } THEN NULL ELSE Min(Fds \ OpenFds)

\* The loop of vtest_sync_wait_init (lines 1908-1925); i is 0-based and is
\* returned as the index the loop stopped at.
RECURSIVE WaitInitLoop(_, _, _, _, _, _)
WaitInitLoop(st, wait, c, data, sync_count, i) ==
    IF i >= sync_count THEN [ st |-> st, wait |-> wait, i |-> i ]
    ELSE LET d == vtest_sync_decode_id_and_value(data, i) IN
         IF d.sync_id \notin sync_table[c]
         THEN [ st |-> st, wait |-> wait, i |-> i ]
         ELSE LET w1 == [wait EXCEPT !.req = Append(@, [ sync |-> d.sync_id,
                                                         value |-> d.value,
                                                         dead |-> FALSE ])]
              IN  IF st.syncs[d.sync_id].value < d.value   \* else: skip signaled
                  THEN WaitInitLoop(vtest_ref_sync(st, d.sync_id),
                                    [w1 EXCEPT !.syncs = Append(@, d.sync_id),
                                               !.values = Append(@, d.value),
                                               !.count = @ + 1],
                                    c, data, sync_count, i + 1)
                  ELSE WaitInitLoop(st, w1, c, data, sync_count, i + 1)

\* A wait that is abandoned with its references when a sync id is missing.
WaitInitDoneNoFree(r, sync_count) ==
    [ st |-> r.st, wait |-> r.wait,
      ret |-> IF r.i < sync_count THEN "EEXIST" ELSE "OK" ]

\* if (i < sync_count) { vtest_free_sync_wait(wait); return -EEXIST; }
WaitInitDone(r, sync_count) ==
    IF r.i < sync_count
    THEN [ st |-> vtest_free_sync_wait(r.st, r.wait), wait |-> r.wait,
           ret |-> "EEXIST" ]
    ELSE [ st |-> r.st, wait |-> r.wait, ret |-> "OK" ]

\* vtest_sync_wait_init(wait, ctx, flags, timeout, syncs, sync_count)
vtest_sync_wait_init(st, c, fd, flags, timeout, data, sync_count) ==
    WaitInitDone(WaitInitLoop(st,
                              [ fd |-> fd, flags |-> flags,
                                valid_before |-> vtest_gettime(timeout),
                                count |-> 0, syncs |-> << >>, values |-> << >>,
                                signaled_count |-> 0, req |-> << >> ],
                              c, data, sync_count, 0),
                 sync_count)

\* A SYNC_WAIT that keeps every wait that is not ready.
FreesWaitWhenReady(write_ok, is_ready, timeout) == is_ready

\* line 1998: if (ret || is_ready || !timeout)
FreesWait(write_ok, is_ready, timeout) == ~write_ok \/ is_ready \/ timeout = 0

\* (length_dw - 2) in uint32_t arithmetic
SyncWaitWords(length_dw) == (length_dw - 2) % WordMod

\* vtest_sync_wait(length_dw): payload flags, timeout, then (id, lo, hi)*.
FinishSyncWait(c, length_dw, buf, sync_count, write_ok, fd, r) ==
    IF r.ret # "OK"
    THEN /\ Commit(r.st)
         /\ ev' = [Event("sync_wait", c, r.ret, << >>, length_dw, r.st)
                     EXCEPT !.req = buf]
    ELSE LET timeout == buf[2]
             is_ready == \/ r.wait.count = 0
                         \/ /\ FlagAny(r.wait.flags)
                            /\ r.wait.count < sync_count
             st1 == IF is_ready THEN write_ready(r.st, r.wait)
                    ELSE r.st
             st2 == IF FreesWait(write_ok, is_ready, timeout)
                    THEN vtest_free_sync_wait(st1, r.wait)
                    ELSE [st1 EXCEPT !.waits[c] = Append(@, r.wait)]
         IN  /\ Commit(st2)
             /\ ev' = [Event("sync_wait", c,
                             IF write_ok THEN "OK" ELSE "EIO",
                             IF write_ok THEN << fd >> ELSE << >>,
                             length_dw, st2)
                         EXCEPT !.req = buf]

\* A frame of fewer than two words that passes the length tests has a
\* sync_count of (UINT_MAX - 1 + length_dw) / 3: flags, timeout and the
\* triples are read past the length_dw * 4 bytes allocated.  The handler
\* ends when malloc refuses the wait, when a word read as a sync id names no
\* sync, or when a read leaves the process's memory.
ShortWaitOutcomes == { "ENOMEM", "EEXIST", "SIGSEGV" }

vtest_sync_wait(c, length_dw, buf, write_ok) ==
    /\ IF TooLong(length_dw) \/ SyncWaitWords(length_dw) % 3 # 0
       THEN /\ ev' = [NoEv EXCEPT !.op = "sync_wait", !.ctx = c, !.ret = "EINVAL"]
            /\ UNCHANGED << syncs, free_syncs, sync_waits, submits >>
       ELSE IF ~ReadOk(buf, length_dw)
       THEN /\ ev' = [NoEv EXCEPT !.op = "sync_wait", !.ctx = c, !.ret = "ERR"]
            /\ submits' = submits
            /\ UNCHANGED << syncs, free_syncs, sync_waits >>
       ELSE IF length_dw < 2
       THEN /\ \E ret \in ShortWaitOutcomes :
                  ev' = [NoEv EXCEPT !.op = "sync_wait", !.ctx = c,
                                     !.nread = length_dw, !.ret = ret,
                                     !.req = SubSeq(buf, 1, length_dw)]
            /\ submits' = submits
            /\ UNCHANGED << syncs, free_syncs, sync_waits >>
       ELSE LET sync_count == SyncWaitWords(length_dw) \div 3
                flags == buf[1]
                timeout == buf[2]
                fd == eventfd
            IN  /\ submits' = submits
                /\ IF fd = NULL
                   THEN /\ ev' = [NoEv EXCEPT !.op = "sync_wait", !.ctx = c,
                                              !.nread = length_dw, !.ret = "ENODEV"]
                        /\ UNCHANGED << syncs, free_syncs, sync_waits >>
                   ELSE FinishSyncWait(c, length_dw, buf, sync_count, write_ok, fd,
                            vtest_sync_wait_init(SyncState, c, fd, flags, timeout,
                                                 SubSeq(buf, 3, Len(buf)), sync_count))
    /\ UNCHANGED << max_length, implicit_fence_submitted, implicit_fence_completed,
                    implicit_pending, active_contexts, free_contexts,
                    next_context_id, next_sync_id, sync_table, sync_queues, fences, now >>

\* -------------------------------------------------------------- sync queue
\* The part of the state a SUBMIT_CMD2 handler or a fence callback threads
\* through: the sync state, the queues, the heap and the pending fences.
QueueState == [ st |-> SyncState, queues |-> sync_queues, heap |-> submits,
                fences |-> fences, rcalls |-> << >>, popped |-> << >>,
                freed |-> NoEv.freed,
                ret |-> "OK", valid |-> TRUE ]

\* Writes back what a handler or callback did to the sync state, the
\* queues, the heap and the pending fences.
CommitQueues(op, c, arg, req, nread, stale, bs) ==
    /\ bs.valid
    /\ Commit(bs.st)
    /\ sync_queues' = bs.queues
    /\ submits' = bs.heap
    /\ fences' = bs.fences
    /\ ev' = [ NoEv EXCEPT !.op = op, !.ctx = c, !.arg = arg, !.ret = bs.ret,
                           !.nread = nread, !.req = req,
                           !.written = bs.st.written, !.signals = bs.st.signals,
                           !.collected = bs.st.collected,
                           !.rcalls = bs.rcalls, !.popped = bs.popped,
                           !.freed = bs.freed,
                           !.stale = stale ]

\* free(submit): a fence still pending for this address now carries a
\* dangling cookie.
FreeSubmit(bs, a) ==
    [bs EXCEPT !.heap[a] = NoSubmit,
               !.fences = { [ f EXCEPT !.stale = @ \/ f.cookie = a ] : f \in @ }]

\* for (i = 0; i < submit->count; i++) { vtest_signal_sync; vtest_unref_sync }
RECURSIVE SignalSlots(_, _, _, _)
SignalSlots(st, slots, values, i) ==
    IF i > Len(slots) THEN st
    ELSE SignalSlots(vtest_unref_sync(vtest_signal_sync(st, slots[i], values[i]),
                                      slots[i]),
                     slots, values, i + 1)

\* A walk that frees only to_submit, where it stands in the queue.
RECURSIVE vtest_signal_sync_queue_only(_, _, _, _)
vtest_signal_sync_queue_only(bs, c, q, to_submit) ==
    IF to_submit \notin SeqToSet(bs.queues[c][q]) THEN bs
    ELSE LET i == CHOOSE j \in 1 .. Len(bs.queues[c][q]) : bs.queues[c][q][j] = to_submit
             sub == bs.heap[to_submit]
             bs1 == [bs EXCEPT !.queues[c][q] = RemoveAt(@, i),
                               !.st = SignalSlots(bs.st, sub.syncs, sub.values, 1),
                               !.popped = Append(@, to_submit)]
         IN  FreeSubmit(bs1, to_submit)

\* vtest_signal_sync_queue(queue, to_submit)
RECURSIVE vtest_signal_sync_queue(_, _, _, _)

\* A walk that never stops at to_submit.
BreakAtNever(bs, c, q, to_submit, a) == vtest_signal_sync_queue(bs, c, q, to_submit)

\* if (submit == to_submit) break;
BreakAt(bs, c, q, to_submit, a) ==
    IF a = to_submit THEN bs ELSE vtest_signal_sync_queue(bs, c, q, to_submit)

vtest_signal_sync_queue(bs, c, q, to_submit) ==
    IF bs.queues[c][q] = << >> THEN bs
    ELSE LET a == Head(bs.queues[c][q])
             sub == bs.heap[a]
         IN  BreakAt(FreeSubmit([bs EXCEPT
                                    !.queues[c][q] = Tail(@),
                                    !.st = SignalSlots(bs.st, sub.syncs, sub.values, 1),
                                    !.popped = Append(@, a)], a),
                     c, q, to_submit, a)

\* What submit->sync_queue reads through the cookie.  A live cell holds the
\* queue of the submit now at that address.  Reading freed memory is
\* undefined: the field holds whatever the allocator left there, the old
\* pointer or any other; of these the queues of the context records are
\* the targets the walk can run on.
AllocatedCtxs == 1 .. (next_context_id - 1)

StaleQueues(cell) ==
    IF cell.state = "live"
    THEN { [ ctx |-> cell.ctx, q |-> cell.q ] }
    ELSE { [ ctx |-> c, q |-> q ] : c \in AllocatedCtxs, q \in QueueIdx }

\* vtest_write_context_fence(cookie, ctx_id, queue_id, fence_id): the renderer
\* completes the pending fence f; `target` is what submit->sync_queue reads.
vtest_write_context_fence(f, target) ==
    /\ f \in fences
    /\ target \in StaleQueues(submits[f.cookie])
    /\ CommitQueues("fence", f.ctx, f.cookie, << >>, 0, f.stale,
                    vtest_signal_sync_queue([QueueState EXCEPT !.fences = @ \ { f }],
                                            target.ctx, target.q, f.cookie))
    /\ UNCHANGED << max_length, implicit_fence_submitted, implicit_fence_completed,
                    implicit_pending, active_contexts, free_contexts,
                    next_context_id, next_sync_id, sync_table, now >>

\* ------------------------------------------------------------- SUBMIT_CMD2
\* submit_cmd2_buf[i]
Rd(buf, i) == buf[i + 1]

VCMD_SUBMIT_CMD2_BATCH_COUNT == 0

\* VCMD_SUBMIT_CMD2_BATCH_FLAGS(n) .. VCMD_SUBMIT_CMD2_BATCH_SYNC_QUEUE_ID_HI(n)
BatchField(n, k) == 1 + 8 * n + k

DecodeBatch(buf, i) ==
    [ flags            |-> Rd(buf, BatchField(i, 0)),
      cmd_offset       |-> Rd(buf, BatchField(i, 1)),
      cmd_size         |-> Rd(buf, BatchField(i, 2)),
      sync_offset      |-> Rd(buf, BatchField(i, 3)),
      sync_count       |-> Rd(buf, BatchField(i, 4)),
      sync_queue_index |-> Rd(buf, BatchField(i, 5)) ]

\* line 2102, in uint32_t arithmetic
BatchTableOutOfFrame(batch_count, length_dw) ==
    (VCMD_SUBMIT_CMD2_BATCH_COUNT + 8 * batch_count) % WordMod > length_dw

\* lines 2121-2123, in uint32_t arithmetic
BatchOutOfFrame(batch, length_dw) ==
    \/ (batch.cmd_offset + batch.cmd_size) % WordMod > length_dw
    \/ (batch.sync_offset + ((batch.sync_count * 3) % WordMod)) % WordMod > length_dw
    \/ batch.sync_queue_index >= VTEST_MAX_SYNC_QUEUE_COUNT

\* The loop of vtest_submit_cmd2_batch (lines 2034-2051); i is 0-based.
RECURSIVE BatchLoop(_, _, _, _, _, _, _, _)
BatchLoop(st, c, data, count, queued, i, slots, values) ==
    IF i >= count
    THEN [ st |-> st, i |-> i, slots |-> slots, values |-> values ]
    ELSE LET d == vtest_sync_decode_id_and_value(data, i) IN
         IF d.sync_id \notin sync_table[c]
         THEN [ st |-> st, i |-> i, slots |-> slots, values |-> values ]
         ELSE IF queued
         THEN BatchLoop(vtest_ref_sync(st, d.sync_id), c, data, count, queued, i + 1,
                        Append(slots, d.sync_id), Append(values, d.value))
         ELSE BatchLoop(vtest_signal_sync(st, d.sync_id, d.value), c, data, count,
                        queued, i + 1, slots, values)

\* What virgl_renderer_submit_cmd was called with and answered; for a call
\* it refused, also the sync state and the queues as they stood at the call.
RendererCall(bs, batch, ok) ==
    [ cmd_size |-> batch.cmd_size, ok |-> ok, batch |-> batch,
      at |-> IF ok THEN << >>
             ELSE << bs.st.syncs, bs.st.free_syncs, bs.st.waits, bs.queues, bs.heap >> ]

FreeCells(heap) == { a \in Addrs : heap[a].state # "live" }

\* A batch that goes on when the renderer refuses its commands.
vtest_submit_cmd2_batch_ignore_renderer(bs, c, batch, data, e) ==
    LET r == BatchLoop(bs.st, c, data, batch.sync_count, FALSE, 0, << >>, << >>)
    IN  [bs EXCEPT !.rcalls = Append(@, RendererCall(bs, batch, e.rok)),
                   !.st = r.st,
                   !.ret = IF e.rok THEN "OK" ELSE "EINVAL"]

\* vtest_submit_cmd2_batch(ctx, batch, cmds, syncs).  e holds what the
\* environment answers: rok (virgl_renderer_submit_cmd succeeds), addr (the
\* address malloc returns), fok (virgl_renderer_context_create_fence
\* succeeds), cb (the renderer completes the new fence inside that call).
\* virgl_renderer_context_create_fence(..., (uintptr_t)submit) followed by
\* list_addtail(&submit->head, &submit->sync_queue->submits)
CreateFenceAndEnqueue(bs, c, q, a, cb) ==
    [ (IF cb
       THEN vtest_signal_sync_queue(bs, c, q, a)
       ELSE [bs EXCEPT !.fences = @ \cup { [ ctx |-> c, cookie |-> a,
                                             stale |-> FALSE ] }])
      EXCEPT !.queues[c][q] = Append(@, a) ]

\* lines 2053-2075, r being what the sync loop returned
AfterBatchLoop(bs0, c, batch, e, queued, r) ==
    LET a == e.addr
        q == batch.sync_queue_index
        sub == [ state |-> "live", ctx |-> c, q |-> q,
                 syncs |-> r.slots, values |-> r.values ]
    IN  IF r.i < batch.sync_count
        THEN [bs0 EXCEPT !.st = IF queued
                                THEN vtest_free_sync_queue_submit(r.st, r.slots, r.i)
                                ELSE r.st,
                         !.ret = "EEXIST"]
        ELSE IF ~queued THEN [bs0 EXCEPT !.st = r.st]
        ELSE IF ~e.fok
        THEN FreeSubmit([bs0 EXCEPT
                 !.st = vtest_free_sync_queue_submit(r.st, r.slots, Len(r.slots)),
                 !.heap[a] = sub,
                 !.ret = "EFENCE"], a)
        ELSE CreateFenceAndEnqueue([bs0 EXCEPT !.st = r.st, !.heap[a] = sub],
                                   c, q, a, e.cb)

vtest_submit_cmd2_batch(bs, c, batch, data, e) ==
    LET bs0 == [bs EXCEPT !.rcalls = Append(@, RendererCall(bs, batch, e.rok))]
        queued == (batch.flags % 2) = VCMD_SUBMIT_CMD2_FLAG_SYNC_QUEUE
    IN  IF ~e.rok THEN [bs0 EXCEPT !.ret = "EINVAL"]
        ELSE IF batch.sync_count = 0 THEN bs0
        ELSE IF queued /\ FreeCells(bs0.heap) = { } THEN [bs0 EXCEPT !.ret = "ENOMEM"]
        ELSE IF queued /\ e.addr \notin FreeCells(bs0.heap)
        THEN [bs0 EXCEPT !.valid = FALSE]
        ELSE AfterBatchLoop(bs0, c, batch, e, queued,
                            BatchLoop(bs0.st, c, data, batch.sync_count, queued, 0,
                                      << >>, << >>))

\* The batch loop of vtest_submit_cmd2 (lines 2107-2133); i is 0-based.
RECURSIVE SubmitBatches(_, _, _, _, _, _, _)

\* if (ret) break;
BreakOnError(bs, c, length_dw, buf, batch_count, env, i) ==
    IF bs.ret # "OK" \/ ~bs.valid THEN bs
    ELSE SubmitBatches(bs, c, length_dw, buf, batch_count, env, i + 1)

SubmitBatches(bs, c, length_dw, buf, batch_count, env, i) ==
    IF i >= batch_count THEN bs
    ELSE LET batch == DecodeBatch(buf, i) IN
         IF BatchOutOfFrame(batch, length_dw) THEN [bs EXCEPT !.ret = "EINVAL"]
         ELSE BreakOnError(vtest_submit_cmd2_batch(bs, c, batch,
                               SubSeq(buf, batch.sync_offset + 1, Len(buf)), env[i + 1]),
                           c, length_dw, buf, batch_count, env, i)

\* vtest_submit_cmd2(length_dw).  A frame of no words reads batch_count
\* outside the buffer; the input sets leave it out.
vtest_submit_cmd2(c, length_dw, buf, env) ==
    /\ TooLong(length_dw) \/ length_dw >= 1
    /\ IF TooLong(length_dw)
       THEN /\ ev' = [NoEv EXCEPT !.op = "submit_cmd2", !.ctx = c, !.ret = "EINVAL"]
            /\ UNCHANGED << syncs, free_syncs, sync_waits, sync_queues, submits, fences >>
       ELSE IF ~ReadOk(buf, length_dw)
       THEN /\ ev' = [NoEv EXCEPT !.op = "submit_cmd2", !.ctx = c, !.ret = "ERR"]
            /\ submits' = submits
            /\ UNCHANGED << syncs, free_syncs, sync_waits, sync_queues, fences >>
       ELSE LET batch_count == Rd(buf, VCMD_SUBMIT_CMD2_BATCH_COUNT) IN
            IF BatchTableOutOfFrame(batch_count, length_dw)
            THEN /\ ev' = [NoEv EXCEPT !.op = "submit_cmd2", !.ctx = c,
                                       !.nread = length_dw, !.ret = "EINVAL"]
                 /\ submits' = submits
                 /\ UNCHANGED << syncs, free_syncs, sync_waits, sync_queues, fences >>
            ELSE CommitQueues("submit_cmd2", c, batch_count, buf, length_dw, FALSE,
                              SubmitBatches(QueueState, c, length_dw, buf, batch_count,
                                            env, 0))
    /\ UNCHANGED << max_length, implicit_fence_submitted, implicit_fence_completed,
                    implicit_pending, active_contexts, free_contexts,
                    next_context_id, next_sync_id, sync_table, now >>

\* ------------------------------------------------------- context teardown
\* LIST_FOR_EACH_ENTRY_SAFE(submit, ...) vtest_free_sync_queue_submit(submit)
RECURSIVE FreeQueue(_, _, _)
FreeQueue(bs, c, q) ==
    IF bs.queues[c][q] = << >> THEN bs
    ELSE LET a == Head(bs.queues[c][q])
             sub == bs.heap[a]
             bs1 == [bs EXCEPT !.queues[c][q] = Tail(@),
                               !.st = vtest_free_sync_queue_submit(bs.st, sub.syncs,
                                                                   Len(sub.syncs))]
         IN  FreeQueue(FreeSubmit(bs1, a), c, q)

RECURSIVE FreeQueues(_, _, _)
FreeQueues(bs, c, i) ==
    IF i >= VTEST_MAX_SYNC_QUEUE_COUNT THEN bs
    ELSE FreeQueues(FreeQueue(bs, c, i), c, i + 1)

RECURSIVE FreeWaits(_, _)
FreeWaits(st, c) ==
    IF st.waits[c] = << >> THEN st
    ELSE LET wait == Head(st.waits[c]) IN
         FreeWaits(vtest_free_sync_wait([st EXCEPT !.waits[c] = Tail(@)], wait), c)

\* A table cleared without its destroy callback.
ClearTableSkipped(st, order) == st

\* util_hash_table_clear(ctx->sync_table): sync_destroy_func on every entry,
\* in the table's iteration order
RECURSIVE ClearTable(_, _)
ClearTable(st, order) ==
    IF order = << >> THEN st
    ELSE ClearTable(vtest_unref_sync(st, Head(order)), Tail(order))

Orders(S) == { o \in [ 1 .. Cardinality(S) -> S ] : SeqToSet(o) = S }

\* The renderer context is destroyed whatever the flag says.
DestroyCallsAlways(c) == << [ fn |-> "context_destroy", ctx |-> c, ok |-> TRUE ] >>

\* if (ctx->context_initialized) virgl_renderer_context_destroy(ctx->ctx_id)
DestroyCalls(c) ==
    IF context_initialized[c]
    THEN << [ fn |-> "context_destroy", ctx |-> c, ok |-> TRUE ] >>
    ELSE << >>

\* vtest_unref_resource(res): virgl_renderer_resource_unref(res->res_id),
\* then list_add(&res->head, &renderer.free_resources)
vtest_unref_resource(free, r) == << r >> \o free

\* util_hash_table_clear(ctx->resource_table): resource_destroy_func on
\* every entry, in the table's iteration order
RECURSIVE ClearResources(_, _)
ClearResources(free, order) ==
    IF order = << >> THEN free
    ELSE ClearResources(vtest_unref_resource(free, Head(order)), Tail(order))

\* What the loops of vtest_destroy_context free without signalling: the
\* submits on the queues, by address, and the waits, by fd.
Teardown(c) ==
    [ submits |-> Flatten([ i \in 1 .. VTEST_MAX_SYNC_QUEUE_COUNT |->
                              sync_queues[c][i - 1] ]),
      waits |-> [ i \in 1 .. Len(sync_waits[c]) |-> sync_waits[c][i].fd ] ]

\* vtest_free_context after the queues are freed: the waits, then the sync
\* table; virgl_renderer_context_destroy drops the context's fences (a
\* context with fences has been through its first operation).
ContextFreed(c, order, bs) ==
    CommitQueues("destroy_context", c, 0, << >>, 0, FALSE,
                 [bs EXCEPT !.st = ClearTable(FreeWaits(bs.st, c), order),
                            !.fences = { f \in @ : f.ctx # c },
                            !.rcalls = DestroyCalls(c),
                            !.freed = Teardown(c)])

\* vtest_destroy_context(ctx).  The renderer drops the fences of a
\* destroyed context (virgl_renderer_context_destroy).
vtest_destroy_context(c, order) ==
    /\ c \in SeqToSet(active_contexts)
    /\ order \in Orders(sync_table[c])
    /\ ContextFreed(c, order, FreeQueues(QueueState, c, 0))
    /\ sync_table' = [sync_table EXCEPT ![c] = { }]
    /\ active_contexts' = SelectSeq(active_contexts, LAMBDA x : x # c)
    /\ free_contexts' = << c >> \o free_contexts
    /\ current_context' = IF current_context = c THEN NULL ELSE current_context
    /\ \E rorder \in Orders(resource_table[c]) :
          free_resources' = ClearResources(free_resources, rorder)
    /\ resource_table' = [resource_table EXCEPT ![c] = { }]
    /\ UNCHANGED << max_length, implicit_fence_submitted, implicit_fence_completed,
                    implicit_pending, next_context_id, next_sync_id, now,
                    resources, next_resource_id >>

\* ------------------------------------------------- legacy submit and clock
\* A fence tagged with the counter as it stands.
PreIncrementNone(n) == n

\* vtest_create_implicit_fence: ++renderer->implicit_fence_submitted
PreIncrement(n) == n + 1

\* vtest_submit_cmd(length_dw)
vtest_submit_cmd(c, length_dw, buf, rok) ==
    /\ implicit_fence_submitted < MaxImplicit
    /\ IF TooLong(length_dw)
       THEN /\ ev' = [NoEv EXCEPT !.op = "submit_cmd", !.ctx = c, !.ret = "ERR"]
            /\ UNCHANGED << implicit_fence_submitted, implicit_pending, submits >>
       ELSE IF ~ReadOk(buf, length_dw)
       THEN /\ ev' = [NoEv EXCEPT !.op = "submit_cmd", !.ctx = c, !.ret = "ERR"]
            /\ submits' = submits
            /\ UNCHANGED << implicit_fence_submitted, implicit_pending >>
       ELSE /\ submits' = submits
            /\ IF ~rok
               THEN /\ ev' = [NoEv EXCEPT !.op = "submit_cmd", !.ctx = c,
                                          !.nread = length_dw, !.ret = "ERR",
                                          !.rcalls = << [ cmd_size |-> length_dw,
                                                          ok |-> FALSE ] >>]
                    /\ UNCHANGED << implicit_fence_submitted, implicit_pending >>
               ELSE \* vtest_create_implicit_fence
                    /\ implicit_fence_submitted' =
                          PreIncrement(implicit_fence_submitted)
                    /\ implicit_pending' = implicit_pending \cup
                                             { PreIncrement(implicit_fence_submitted) }
                    /\ ev' = [NoEv EXCEPT !.op = "submit_cmd", !.ctx = c,
                                          !.nread = length_dw,
                                          !.rcalls = << [ cmd_size |-> length_dw,
                                                          ok |-> TRUE ] >>]
    /\ UNCHANGED << max_length, implicit_fence_completed, active_contexts,
                    free_contexts, next_context_id, syncs, free_syncs, next_sync_id,
                    sync_table, sync_queues, fences, sync_waits, now >>

\* vtest_write_implicit_fence(cookie, fence_id_in)
vtest_write_implicit_fence(fence_id_in) ==
    /\ fence_id_in \in implicit_pending
    /\ implicit_fence_completed' = fence_id_in
    /\ implicit_pending' = implicit_pending \ { fence_id_in }
    /\ ev' = [NoEv EXCEPT !.op = "implicit_fence"]
    /\ UNCHANGED << max_length, implicit_fence_submitted, active_contexts,
                    free_contexts, next_context_id, syncs, free_syncs, next_sync_id,
                    sync_table, sync_queues, submits, fences, sync_waits, now >>

\* vtest_set_max_length(length)
vtest_set_max_length(length) ==
    /\ max_length' = length
    /\ ev' = [NoEv EXCEPT !.op = "set_max_length"]
    /\ UNCHANGED << implicit_fence_submitted, implicit_fence_completed,
                    implicit_pending, active_contexts, free_contexts,
                    next_context_id, syncs, free_syncs, next_sync_id, sync_table,
                    sync_queues, submits, fences, sync_waits, now >>

\* CLOCK_MONOTONIC advances
ClockTick(d) ==
    /\ d > 0
    /\ now + d <= MaxTime
    /\ now' = now + d
    /\ ev' = [NoEv EXCEPT !.op = "tick"]
    /\ UNCHANGED << max_length, implicit_fence_submitted, implicit_fence_completed,
                    implicit_pending, active_contexts, free_contexts,
                    next_context_id, syncs, free_syncs, next_sync_id, sync_table,
                    sync_queues, submits, fences, sync_waits >>

\* ------------------------------------------ negotiation and the busy wait
\* A server that takes the guest's version whatever its own is.
MIN2Guest(a, b) == a

MIN2(a, b) == IF a < b THEN a ELSE b

\* vtest_protocol_version(length_dw): payload version; `shm` is what
\* vtest_shm_check() answers, write_ok whether the block writes succeed.
vtest_protocol_version(c, length_dw, buf, shm, write_ok) ==
    /\ IF ~ReadOk(buf, 1)
       THEN /\ ev' = [NoEv EXCEPT !.op = "protocol_version", !.ctx = c,
                                  !.ret = "ERR"]
            /\ UNCHANGED protocol_version
       ELSE LET guest == buf[1]
                negotiated == MIN2(guest, VTEST_PROTOCOL_VERSION)
                undeprecated == IF negotiated = 1 THEN 0 ELSE negotiated
                version == IF ~shm THEN 0 ELSE undeprecated
                e == [NoEv EXCEPT !.op = "protocol_version", !.ctx = c,
                                  !.nread = 1, !.req = buf,
                                  !.arg = IF shm THEN 1 ELSE 0]
            IN  IF multi_clients /\ version < 3
                THEN /\ ev' = [e EXCEPT !.ret = "EINVAL"]
                     /\ UNCHANGED protocol_version
                ELSE /\ protocol_version' = [protocol_version EXCEPT ![c] = version]
                     /\ ev' = IF write_ok
                              THEN [e EXCEPT !.resp = << version >>]
                              ELSE [e EXCEPT !.ret = "EIO"]
    /\ UNCHANGED << RendererVars, capset_id, context_initialized, multi_clients,
                    busy_wait >>

\* vtest_lazy_init_context(ctx) with ctx->capset_id = capset; rok is
\* whether the renderer creates the context.
vtest_lazy_init_context(c, capset, rok) ==
    IF context_initialized[c]
    THEN [ ret |-> "OK", initialized |-> TRUE, rcalls |-> << >> ]
    ELSE IF multi_clients /\ protocol_version[c] < 3
    THEN [ ret |-> "EINVAL", initialized |-> FALSE, rcalls |-> << >> ]
    ELSE [ ret |-> IF rok THEN "OK" ELSE "ERR",
           initialized |-> rok,
           rcalls |-> << [ fn |-> IF capset # 0
                                  THEN "context_create_with_flags"
                                  ELSE "context_create",
                           capset_id |-> capset, ok |-> rok ] >> ]

\* A CONTEXT_INIT that stores the capset id it is sent on an initialized
\* context as well.
StoredCapsetLatest(c, capset) == capset

\* lines 867-871: ctx->capset_id after a CONTEXT_INIT that names `capset`,
\* assigned only past the return for an initialized context
StoredCapset(c, capset) == IF context_initialized[c] THEN capset_id[c] ELSE capset

\* vtest_context_init(length_dw): payload capset_id
vtest_context_init(c, length_dw, buf, rok) ==
    /\ IF ~ReadOk(buf, 1)
       THEN /\ ev' = [NoEv EXCEPT !.op = "context_init", !.ctx = c, !.ret = "ERR"]
            /\ UNCHANGED << capset_id, context_initialized >>
       ELSE LET capset == buf[1]
                e == [NoEv EXCEPT !.op = "context_init", !.ctx = c, !.nread = 1,
                                  !.req = buf]
            IN  IF capset = 0
                THEN /\ ev' = [e EXCEPT !.ret = "EINVAL"]
                     /\ UNCHANGED << capset_id, context_initialized >>
                ELSE IF context_initialized[c]
                THEN /\ ev' = [e EXCEPT !.ret = IF capset_id[c] = capset
                                                THEN "OK" ELSE "EINVAL"]
                     /\ capset_id' = [capset_id EXCEPT ![c] = StoredCapset(c, capset)]
                     /\ UNCHANGED context_initialized
                ELSE LET r == vtest_lazy_init_context(c, capset, rok) IN
                     /\ capset_id' = [capset_id EXCEPT ![c] = StoredCapset(c, capset)]
                     /\ context_initialized' =
                           [context_initialized EXCEPT ![c] = r.initialized]
                     /\ ev' = [e EXCEPT !.ret = r.ret, !.rcalls = r.rcalls]
    /\ UNCHANGED << RendererVars, protocol_version, multi_clients, busy_wait >>

\* The first operation of a connection that needs the renderer's context:
\* vtest_lazy_init_context(ctx) with the capset id the context holds.
FirstOperation(c, rok) ==
    /\ LET r == vtest_lazy_init_context(c, capset_id[c], rok) IN
       /\ context_initialized' = [context_initialized EXCEPT ![c] = r.initialized]
       /\ ev' = [NoEv EXCEPT !.op = "lazy_init", !.ctx = c, !.ret = r.ret,
                             !.rcalls = r.rcalls]
    /\ UNCHANGED << RendererVars, protocol_version, capset_id, multi_clients,
                    busy_wait >>

\* A busy wait that takes any handle before the context is initialized.
PreludeRejectsNever(c, handle) == FALSE

\* lines 1592-1593: !ctx->context_initialized && bw_buf[VCMD_BUSY_WAIT_HANDLE]
PreludeRejects(c, handle) == ~context_initialized[c] /\ handle # 0

\* lines 1612-1626: the reply of RESOURCE_BUSY_WAIT
BusyReply(c, req, busy, write_ok) ==
    LET e == [NoEv EXCEPT !.op = "busy_wait", !.ctx = c, !.nread = 2,
                          !.req = req] IN
    IF write_ok
    THEN [e EXCEPT !.resp = << IF busy THEN 1 ELSE 0 >>]
    ELSE [e EXCEPT !.ret = "EIO"]

\* vtest_resource_busy_wait(length_dw): payload handle, flags.  The
\* handler replies, or stays in its poll loop (lines 1598-1610).
vtest_resource_busy_wait(c, length_dw, buf, write_ok) ==
    /\ busy_wait = NoBusyWait
    /\ IF ~ReadOk(buf, 2)
       THEN /\ ev' = [NoEv EXCEPT !.op = "busy_wait", !.ctx = c, !.ret = "ERR"]
            /\ UNCHANGED busy_wait
       ELSE IF PreludeRejects(c, buf[1])
       THEN /\ ev' = [NoEv EXCEPT !.op = "busy_wait", !.ctx = c, !.nread = 2,
                                  !.req = buf, !.ret = "ERR"]
            /\ UNCHANGED busy_wait
       ELSE LET flags == buf[2]
                busy == implicit_fence_completed # implicit_fence_submitted
            IN  IF ~busy \/ (flags % 2) # VCMD_BUSY_WAIT_FLAG_WAIT
                THEN /\ ev' = BusyReply(c, buf, busy, write_ok)
                     /\ UNCHANGED busy_wait
                ELSE /\ ev' = [NoEv EXCEPT !.op = "busy_wait_poll", !.ctx = c,
                                           !.nread = 2, !.req = buf]
                     /\ busy_wait' = [ ctx |-> c, req |-> buf,
                                       write_ok |-> write_ok ]
    /\ UNCHANGED << RendererVars, CtxFields, multi_clients >>

\* The poll loop comes round (lines 1598-1602) and finds the counters
\* equal; while they differ a round changes nothing.
BusyWaitLoop ==
    /\ busy_wait # NoBusyWait
    /\ implicit_fence_completed = implicit_fence_submitted
    /\ ev' = BusyReply(busy_wait.ctx, busy_wait.req, FALSE, busy_wait.write_ok)
    /\ busy_wait' = NoBusyWait
    /\ UNCHANGED << RendererVars, CtxFields, multi_clients >>

\* -------------------------------------------------------------- resources
\* vtest_set_current_context(ctx)
vtest_set_current_context(c) ==
    /\ current_context' = c
    /\ ev' = [NoEv EXCEPT !.op = "set_current_context", !.ctx = c]
    /\ UNCHANGED << RendererVars, CtxFields, ServerMode, ResourceVars >>

\* malloc(sizeof(*res)): an address that holds no record
FreshResource == Min({ a \in ResAddrs : ~resources[a].alloc })

\* Records can be had: one on the free list, or memory for a new one.
CanAllocate ==
    free_resources # << >> \/ \E a \in ResAddrs : ~resources[a].alloc

\* A server that hands out the same id again.
NextResourceIdSame(id) == id

\* res->server_res_id = renderer.next_resource_id++
NextResourceId(id) == id + 1

\* vtest_new_resource(client_res_id): a recycled record keeps its
\* server_res_id
vtest_new_resource(client_res_id) ==
    IF free_resources = << >>
    THEN [ res |-> FreshResource, server_res_id |-> next_resource_id,
           free |-> free_resources, next |-> NextResourceId(next_resource_id),
           res_id |-> IF client_res_id # 0 THEN client_res_id
                      ELSE next_resource_id ]
    ELSE LET a == Head(free_resources) IN
         [ res |-> a, server_res_id |-> resources[a].server_res_id,
           free |-> Tail(free_resources), next |-> next_resource_id,
           res_id |-> IF client_res_id # 0 THEN client_res_id
                      ELSE resources[a].server_res_id ]

\* The record vtest_new_resource returned, as the heap holds it, with the
\* shared memory vtest_create_resource_setup_shm has mapped for it.
Allocated(n, size) ==
    [resources EXCEPT ![n.res] = [ alloc |-> TRUE,
                                   server_res_id |-> n.server_res_id,
                                   res_id |-> n.res_id,
                                   iov_len |-> size ]]

\* util_hash_table_get(ctx->resource_table, handle)
LookupResource(c, handle) ==
    { a \in resource_table[c] : resources[a].res_id = handle }

\* A handle check that lets every handle through.
HandleCheckNone(c, handle) == "OK"

\* The handle check at the head of vtest_create_resource_internal.
HandleCheck(c, handle) ==
    IF protocol_version[c] >= 3
    THEN IF handle # 0 THEN "EINVAL" ELSE "OK"
    ELSE IF LookupResource(c, handle) # { } THEN "EEXIST" ELSE "OK"

\* A handler gave up after vtest_new_resource: vtest_unref_resource(res).
ResourceDropped(e, n, ret, calls) ==
    /\ ev' = [e EXCEPT !.ret = ret,
                       !.rcalls = calls \o << [ fn |-> "resource_unref",
                                                res_id |-> n.res_id,
                                                ok |-> TRUE ] >>]
    /\ resources' = Allocated(n, 0)
    /\ free_resources' = vtest_unref_resource(n.free, n.res)
    /\ next_resource_id' = n.next
    /\ UNCHANGED resource_table

\* util_hash_table_set(ctx->resource_table, res->res_id, res): an entry
\* already under that key is destroyed.  resp is the reply's length and
\* payload; its command id is e.op.
ResourceKept(e, c, n, size, calls, resp) ==
    LET old == { a \in LookupResource(c, n.res_id) : a # n.res } IN
    /\ ev' = [e EXCEPT !.ret = "OK", !.resp = resp,
                       !.rcalls = calls \o [ i \in 1 .. Cardinality(old) |->
                                               [ fn |-> "resource_unref",
                                                 res_id |-> n.res_id,
                                                 ok |-> TRUE ] ]]
    /\ resources' = Allocated(n, size)
    /\ free_resources' = IF old = { } THEN n.free
                         ELSE vtest_unref_resource(n.free, CHOOSE a \in old : TRUE)
    /\ next_resource_id' = n.next
    /\ resource_table' = [resource_table EXCEPT ![c] = (@ \ old) \cup { n.res }]

\* vtest_create_resource_internal(ctx, cmd_id, args, shm_size); `fail` is
\* the call that fails, if one does.
vtest_create_resource_internal(c, cmd_id, handle, shm_size, fail) ==
    LET e == [NoEv EXCEPT !.op = cmd_id, !.ctx = c, !.arg = handle,
                          !.req = << handle, shm_size >>]
        n == vtest_new_resource(handle)
        create == << [ fn |-> "resource_create", res_id |-> n.res_id,
                       ok |-> fail # "create" ] >>
    IN  IF HandleCheck(c, handle) # "OK"
        THEN /\ ev' = [e EXCEPT !.ret = HandleCheck(c, handle)]
             /\ UNCHANGED ResourceVars
        ELSE /\ CanAllocate
             /\ IF fail = "create"
                THEN ResourceDropped(e, n, "ERR", create)
                ELSE IF protocol_version[c] >= 3 /\ fail = "write"
                THEN ResourceDropped(e, n, "EIO", create)
                ELSE IF shm_size # 0 /\ fail = "shm"
                THEN ResourceDropped(e, n, "ENOMEM", create)
                ELSE IF shm_size # 0 /\ fail = "send_fd"
                THEN ResourceDropped(e, n, "ERR", create)
                ELSE ResourceKept(e, c, n, shm_size, create,
                                  IF protocol_version[c] >= 3
                                  THEN << 1, n.res_id >> ELSE << >>)

\* vtest_create_resource(length_dw)
vtest_create_resource(c, handle, rok, fail) ==
    /\ IF ~rok
       THEN /\ ev' = [NoEv EXCEPT !.op = "RESOURCE_CREATE", !.ctx = c,
                                  !.ret = "ERR"]
            /\ UNCHANGED ResourceVars
       ELSE vtest_create_resource_internal(c, "RESOURCE_CREATE", handle, 0, fail)
    /\ UNCHANGED << RendererVars, CtxFields, multi_clients, busy_wait,
                    current_context >>

\* vtest_create_resource2(length_dw)
vtest_create_resource2(c, handle, shm_size, rok, fail) ==
    /\ IF ~rok
       THEN /\ ev' = [NoEv EXCEPT !.op = "RESOURCE_CREATE2", !.ctx = c,
                                  !.ret = "ERR"]
            /\ UNCHANGED ResourceVars
       ELSE vtest_create_resource_internal(c, "RESOURCE_CREATE2", handle,
                                           shm_size, fail)
    /\ UNCHANGED << RendererVars, CtxFields, multi_clients, busy_wait,
                    current_context >>

\* vtest_resource_create_blob(length_dw); blob_mem is the case of the
\* switch the request's type takes, size the blob's size, `fail` the call
\* that fails, if one does.
vtest_resource_create_blob(c, blob_mem, size, rok, fail) ==
    /\ IF ~rok
       THEN /\ ev' = [NoEv EXCEPT !.op = "RESOURCE_CREATE_BLOB", !.ctx = c,
                                  !.ret = "ERR"]
            /\ UNCHANGED ResourceVars
       ELSE LET e == [NoEv EXCEPT !.op = "RESOURCE_CREATE_BLOB", !.ctx = c,
                                  !.req = << blob_mem, size >>]
                n == vtest_new_resource(0)
                create == << [ fn |-> "resource_create_blob", res_id |-> n.res_id,
                               ok |-> fail # "create" ] >>
                export == << [ fn |-> "resource_export_blob", res_id |-> n.res_id,
                               ok |-> fail # "export" ] >>
            IN  /\ CanAllocate
                /\ IF blob_mem \in { "GUEST", "HOST3D_GUEST" } /\ fail = "shm"
                   THEN ResourceDropped(e, n, "ENOMEM", << >>)
                   ELSE IF blob_mem \notin { "GUEST", "HOST3D_GUEST", "HOST3D" }
                   THEN ResourceDropped(e, n, "EINVAL", << >>)
                   ELSE IF fail = "create"
                   THEN ResourceDropped(e, n, "ERR", create)
                   ELSE IF blob_mem = "HOST3D" /\ fail = "export"
                   THEN ResourceDropped(e, n, "ERR", create \o export)
                   ELSE IF blob_mem = "HOST3D" /\ fail = "fd_type"
                   THEN ResourceDropped(e, n, "EINVAL", create \o export)
                   ELSE IF fail = "write"
                   THEN ResourceDropped(e, n, "EIO",
                                        IF blob_mem = "HOST3D"
                                        THEN create \o export ELSE create)
                   ELSE IF fail = "send_fd"
                   THEN ResourceDropped(e, n, "ERR",
                                        IF blob_mem = "HOST3D"
                                        THEN create \o export ELSE create)
                   ELSE ResourceKept(e, c, n,
                                     IF blob_mem = "HOST3D" THEN 0 ELSE size,
                                     IF blob_mem = "HOST3D"
                                     THEN create \o export ELSE create,
                                     << 1, n.res_id >>)
    /\ UNCHANGED << RendererVars, CtxFields, multi_clients, busy_wait,
                    current_context >>

\* A TRANSFER_GET that answers with the renderer's verdict.
ReplyStatus(ret, write_ok) ==
    IF ret # "OK" THEN ret ELSE IF write_ok THEN "OK" ELSE "EIO"

\* lines 1391-1397: ret = vtest_block_write(...); if (ret > 0) ret = 0;
\* whatever ret held before
WriteStatus(ret, write_ok) == IF write_ok THEN "OK" ELSE "EIO"

\* vtest_transfer_get_internal(ctx, args, data_size, do_transfer)
vtest_transfer_get_internal(c, e, handle, data_size, offset, do_transfer, rok, write_ok) ==
    LET found == LookupResource(c, handle) IN
    IF found = { }
    THEN [e EXCEPT !.ret = "ESRCH"]
    ELSE LET res == resources[CHOOSE a \in found : TRUE]
             read == IF do_transfer
                     THEN << [ fn |-> "transfer_read_iov", res_id |-> res.res_id,
                               ok |-> rok ] >>
                     ELSE << >>
             ret == IF do_transfer /\ ~rok THEN "ERR" ELSE "OK"
         IN  IF data_size = 0 /\ offset >= res.iov_len
             THEN [e EXCEPT !.ret = "EFAULT"]
             ELSE [e EXCEPT !.rcalls = read,
                            !.ret = IF data_size # 0
                                    THEN WriteStatus(ret, write_ok) ELSE ret,
                            !.resp = IF data_size # 0 /\ write_ok
                                     THEN << data_size >> ELSE << >>]

\* vtest_transfer_put_internal(ctx, args, data_size, do_transfer); a read
\* that returns a count, short or not, lets the handler go on, and without
\* a transfer the count is what the handler returns.
vtest_transfer_put_internal(c, e, handle, data_size, do_transfer, rok, read_ok) ==
    LET found == LookupResource(c, handle) IN
    IF found = { }
    THEN [e EXCEPT !.ret = "ESRCH"]
    ELSE LET res == resources[CHOOSE a \in found : TRUE] IN
         IF data_size # 0 /\ ~read_ok
         THEN [e EXCEPT !.ret = "ERR"]
         ELSE IF do_transfer
         THEN [e EXCEPT !.nread = data_size,
                        !.rcalls = << [ fn |-> "transfer_write_iov",
                                        res_id |-> res.res_id, ok |-> rok ] >>,
                        !.ret = IF rok THEN "OK" ELSE "ERR"]
         ELSE [e EXCEPT !.nread = data_size,
                        !.ret = IF data_size # 0 THEN "COUNT" ELSE "OK"]

\* vtest_transfer_decode_args (version 1: the header carries data_size) and
\* vtest_transfer_decode_args2 (version 2: it carries an offset into the
\* resource's shared memory)
TransferArgs(version, hok, handle, data_size, offset) ==
    IF ~hok THEN [ ret |-> "ERR" ]
    ELSE IF version = 1
    THEN IF data_size > max_length
         THEN [ ret |-> "ENOMEM" ]
         ELSE [ ret |-> "OK", handle |-> handle, data_size |-> data_size,
                offset |-> 0 ]
    ELSE [ ret |-> "OK", handle |-> handle, data_size |-> 0, offset |-> offset ]

\* vtest_transfer_get, _get_nop, _get2, _get2_nop (length_dw)
vtest_transfer_get(c, version, do_transfer, hok, handle, data_size, offset, rok, write_ok) ==
    /\ LET args == TransferArgs(version, hok, handle, data_size, offset)
           e == [NoEv EXCEPT !.op = "TRANSFER_GET", !.ctx = c, !.arg = handle,
                             !.req = << version, data_size, offset >>]
       IN  ev' = IF args.ret # "OK" THEN [e EXCEPT !.ret = args.ret]
                 ELSE vtest_transfer_get_internal(c, e, args.handle, args.data_size,
                                                  args.offset, do_transfer, rok,
                                                  write_ok)
    /\ UNCHANGED << RendererVars, CtxFields, multi_clients, busy_wait,
                    current_context, ResourceVars >>

\* vtest_transfer_put, _put_nop, _put2, _put2_nop (length_dw)
vtest_transfer_put(c, version, do_transfer, hok, handle, data_size, offset, rok, read_ok) ==
    /\ LET args == TransferArgs(version, hok, handle, data_size, offset)
           e == [NoEv EXCEPT !.op = "TRANSFER_PUT", !.ctx = c, !.arg = handle,
                             !.req = << version, data_size, offset >>]
       IN  ev' = IF args.ret # "OK" THEN [e EXCEPT !.ret = args.ret]
                 ELSE vtest_transfer_put_internal(c, e, args.handle, args.data_size,
                                                  do_transfer, rok, read_ok)
    /\ UNCHANGED << RendererVars, CtxFields, multi_clients, busy_wait,
                    current_context, ResourceVars >>

\* vtest_resource_unref(length_dw): util_hash_table_remove destroys the
\* entry under the handle, if there is one
vtest_resource_unref(c, handle, rok) ==
    /\ IF ~rok
       THEN /\ ev' = [NoEv EXCEPT !.op = "RESOURCE_UNREF", !.ctx = c,
                                  !.ret = "ERR"]
            /\ UNCHANGED ResourceVars
       ELSE LET old == LookupResource(c, handle) IN
            /\ ev' = [NoEv EXCEPT !.op = "RESOURCE_UNREF", !.ctx = c,
                                  !.arg = handle, !.req = << handle >>,
                                  !.rcalls = [ i \in 1 .. Cardinality(old) |->
                                                [ fn |-> "resource_unref",
                                                  res_id |-> handle,
                                                  ok |-> TRUE ] ]]
            /\ free_resources' = IF old = { } THEN free_resources
                                 ELSE vtest_unref_resource(free_resources,
                                                           CHOOSE a \in old : TRUE)
            /\ resource_table' = [resource_table EXCEPT ![c] = @ \ old]
            /\ UNCHANGED << resources, next_resource_id >>
    /\ UNCHANGED << RendererVars, CtxFields, multi_clients, busy_wait,
                    current_context >>

\* ------------------------------------------------------------------- Init
\* The static initializer of `renderer` (lines 201-206), then
\* vtest_init_renderer(multi_clients, ctx_flags, render_device).
vtest_init_renderer(multi) ==
    /\ multi_clients = multi
    /\ protocol_version = [ c \in CtxIds |-> 0 ]
    /\ capset_id = [ c \in CtxIds |-> 0 ]
    /\ context_initialized = [ c \in CtxIds |-> FALSE ]
    /\ busy_wait = NoBusyWait
    /\ client_error = { }
    /\ current_context = NULL
    /\ resources = [ a \in ResAddrs |-> NoResource ]
    /\ free_resources = << >>
    /\ next_resource_id = 1
    /\ resource_table = [ c \in CtxIds |-> { } ]
    /\ max_length = UINT_MAX
    /\ implicit_fence_submitted = 0
    /\ implicit_fence_completed = 0
    /\ implicit_pending = { }
    /\ active_contexts = << >>
    /\ free_contexts = << >>
    /\ next_context_id = 1
    /\ syncs = [ s \in SyncIds |-> NoSync ]
    /\ free_syncs = << >>
    /\ next_sync_id = 1
    /\ sync_table = [ c \in CtxIds |-> { } ]
    /\ sync_queues = [ c \in CtxIds |-> EmptyQueues ]
    /\ submits = [ a \in Addrs |-> NoSubmit ]
    /\ fences = { }
    /\ sync_waits = [ c \in CtxIds |-> << >> ]
    /\ now = 0
    /\ hdr = 0
    /\ ev = NoEv
    /\ shadow = [ s \in SyncIds |-> << >> ]

\* A single-client server.
Init == vtest_init_renderer(FALSE)

\* A server in either mode.
InitAnyMode == \E multi \in BOOLEAN : vtest_init_renderer(multi)

\* ------------------------------------------------------------ client input
SeqsUpTo(S, n) == UNION { [ 1 .. k -> S ] : k \in 0 .. n }

\* (sync_id, value_lo, value_hi) triples over the given ids and wire values.
TriplesOf(ids, values) == { << s, v[1], v[2] >> : s \in ids, v \in values }

\* SYNC_WAIT payloads: flags, timeout, then up to n triples.
TimeoutForever == INT32_MAX + 1

WaitFramesOf(flagset, timeouts, triples, n) ==
    { << flags, timeout >> \o Flatten(ts) :
        flags \in flagset, timeout \in timeouts, ts \in SeqsUpTo(triples, n) }

\* A SUBMIT_CMD2 payload as a client lays it out: the batch count, the
\* batch table, then each batch's commands (one word) and sync triples.
\* A batch description d gives flags, the triples, the queue index and
\* cmd_size.
BatchBody(d) == << 0 >> \o Flatten(d.triples)

RECURSIVE BodyOffset(_, _, _)
BodyOffset(ds, i, base) ==
    IF i = 1 THEN base ELSE BodyOffset(Tail(ds), i - 1, base + Len(BatchBody(Head(ds))))

Cmd2Frame(ds) ==
    LET n == Len(ds)
        entry(i) == LET off == BodyOffset(ds, i, 1 + 8 * n) IN
                    << ds[i].flags, off, ds[i].cmd_size, off + 1, Len(ds[i].triples),
                       ds[i].qidx, 0, 0 >>
    IN  << n >> \o Flatten([ i \in 1 .. n |-> entry(i) ])
               \o Flatten([ i \in 1 .. n |-> BatchBody(ds[i]) ])

BatchDescsOf(flagset, tripleseqs, qs, sizes) ==
    { [ flags |-> fl, triples |-> ts, qidx |-> q, cmd_size |-> sz ] :
        fl \in flagset, ts \in tripleseqs, q \in qs, sz \in sizes }

\* What the renderer and malloc answer to one batch.
EnvOk(a) == [ rok |-> TRUE, fok |-> TRUE, cb |-> FALSE, addr |-> a ]

Active == SeqToSet(active_contexts)

\* ----------------------------------------------------- actions over inputs
\* A client frame: the header's length_dw is the payload's length, or one
\* of `lens` while the stream holds the same payload.
CreateContextIn(lengths, names) ==
    /\ Len(active_contexts) < MaxClients
    /\ \E length \in lengths, name \in names : vtest_create_context(length, name)
    /\ hdr' = 0
    /\ UNCHANGED << shadow, ServerVars >>

\* A further client connects while others are being served.
ConnectIn(lengths, names) ==
    /\ \E length \in lengths, name \in names : vtest_create_context(length, name)
    /\ hdr' = 0
    /\ UNCHANGED << shadow, ServerVars >>

DestroyContextIn(cs) ==
    /\ \E c \in cs \cap Active : \E order \in Orders(sync_table[c]) :
          vtest_destroy_context(c, order)
    /\ hdr' = 0
    /\ UNCHANGED << shadow, CtxFields, ServerMode >>

SyncCreateIn(values, oks, lens) ==
    \E c \in Active, v \in values, write_ok \in oks, length_dw \in { 2 } \cup lens :
       /\ vtest_sync_create(c, length_dw, v, write_ok)
       /\ hdr' = length_dw
       /\ shadow' = IF ev'.ret = "OK"
                    THEN [shadow EXCEPT ![ev'.resp[1]] = v]
                    ELSE shadow
       /\ UNCHANGED << CtxFields, ServerVars >>

SyncUnrefIn(ids) ==
    /\ \E c \in Active, s \in ids : vtest_sync_unref(c, 1, << s >>)
    /\ hdr' = 1
    /\ UNCHANGED << shadow, CtxFields, ServerVars >>

SyncReadIn(ids) ==
    /\ \E c \in Active, s \in ids : vtest_sync_read(c, 1, << s >>)
    /\ hdr' = 1
    /\ UNCHANGED << shadow, CtxFields, ServerVars >>

SyncWriteIn(triples, lens) ==
    \E c \in Active, t \in triples, length_dw \in { 3 } \cup lens :
       /\ vtest_sync_write(c, length_dw, t)
       /\ hdr' = length_dw
       /\ shadow' = IF ev'.ret = "OK"
                    THEN [shadow EXCEPT ![t[1]] = << t[2], t[3] >>]
                    ELSE shadow
       /\ UNCHANGED << CtxFields, ServerVars >>

SyncWaitIn(frames, oks, lens) ==
    /\ \E c \in Active, buf \in frames, write_ok \in oks :
          \E length_dw \in { Len(buf) } \cup lens :
             /\ vtest_sync_wait(c, length_dw, buf, write_ok)
             /\ hdr' = length_dw
    /\ UNCHANGED << shadow, CtxFields, ServerVars >>

SubmitCmd2In(frames, envs, lens) ==
    /\ \E c \in Active, buf \in frames, env \in envs :
          \E length_dw \in { Len(buf) } \cup lens :
             /\ vtest_submit_cmd2(c, length_dw, buf, env)
             /\ hdr' = length_dw
    /\ UNCHANGED << shadow, CtxFields, ServerVars >>

SubmitCmdIn(bufs, roks, lens) ==
    /\ \E c \in Active, buf \in bufs, rok \in roks :
          \E length_dw \in { Len(buf) } \cup lens :
             /\ vtest_submit_cmd(c, length_dw, buf, rok)
             /\ hdr' = length_dw
    /\ UNCHANGED << shadow, CtxFields, ServerVars >>

ContextFenceIn ==
    /\ \E f \in fences : \E target \in StaleQueues(submits[f.cookie]) :
          vtest_write_context_fence(f, target)
    /\ hdr' = 0
    /\ UNCHANGED << shadow, CtxFields, ServerVars >>

ImplicitFenceIn ==
    /\ \E id \in implicit_pending : vtest_write_implicit_fence(id)
    /\ hdr' = 0
    /\ UNCHANGED << shadow, CtxFields, ServerVars >>

SetMaxLengthIn(lengths) ==
    /\ \E length \in lengths : vtest_set_max_length(length)
    /\ hdr' = 0
    /\ UNCHANGED << shadow, CtxFields, ServerVars >>

TickIn(ds) ==
    /\ \E d \in ds : ClockTick(d)
    /\ hdr' = 0
    /\ UNCHANGED << shadow, CtxFields, ServerVars >>

\* Connections the dispatcher still serves: a handler that returns an
\* error ends its connection, and the server reads no command while a
\* handler is in its poll loop.
Connected == IF busy_wait = NoBusyWait THEN Active \ client_error ELSE { }

Failed(c) == IF ev'.ret = "OK" THEN client_error ELSE client_error \cup { c }

ProtocolVersionIn(bufs, shms, oks) ==
    /\ \E c \in Connected, buf \in bufs, shm \in shms, write_ok \in oks :
          /\ vtest_protocol_version(c, Len(buf), buf, shm, write_ok)
          /\ client_error' = Failed(c)
          /\ hdr' = Len(buf)
    /\ UNCHANGED << shadow, ResourceVars, current_context >>

ContextInitIn(bufs, roks) ==
    /\ \E c \in Connected, buf \in bufs, rok \in roks :
          /\ vtest_context_init(c, Len(buf), buf, rok)
          /\ client_error' = Failed(c)
          /\ hdr' = Len(buf)
    /\ UNCHANGED << shadow, ResourceVars, current_context >>

FirstOperationIn(roks) ==
    /\ \E c \in Connected, rok \in roks :
          /\ ~context_initialized[c]
          /\ FirstOperation(c, rok)
          /\ client_error' = Failed(c)
    /\ hdr' = 0
    /\ UNCHANGED << shadow, ResourceVars, current_context >>

\* The dispatcher calls vtest_lazy_init_context before every command that
\* needs the renderer's context, initialized or not.
LazyInitIn(roks) ==
    /\ \E c \in Connected, rok \in roks :
          /\ FirstOperation(c, rok)
          /\ client_error' = Failed(c)
    /\ hdr' = 0
    /\ UNCHANGED << shadow, ResourceVars, current_context >>

BusyWaitIn(bufs, oks) ==
    /\ \E c \in Connected, buf \in bufs, write_ok \in oks :
          /\ vtest_resource_busy_wait(c, Len(buf), buf, write_ok)
          /\ client_error' = Failed(c)
          /\ hdr' = Len(buf)
    /\ UNCHANGED << shadow, ResourceVars, current_context >>

BusyWaitLoopIn ==
    /\ BusyWaitLoop
    /\ client_error' = Failed(busy_wait.ctx)
    /\ hdr' = 0
    /\ UNCHANGED << shadow, ResourceVars, current_context >>

LegacySubmitIn(bufs, roks) ==
    /\ \E c \in Connected, buf \in bufs, rok \in roks :
          /\ vtest_submit_cmd(c, Len(buf), buf, rok)
          /\ client_error' = Failed(c)
          /\ hdr' = Len(buf)
    /\ UNCHANGED << shadow, CtxFields, multi_clients, busy_wait, ResourceVars,
                    current_context >>

\* The dispatcher makes a connection's context current before it runs a
\* handler on it.
SetCurrentContextIn ==
    /\ \E c \in Connected : vtest_set_current_context(c)
    /\ hdr' = 0
    /\ UNCHANGED shadow

\* vtest_get_current_context() in a handler the dispatcher runs.
Served == Connected \cap { current_context }

ResourceCreateIn(handles, roks, fails) ==
    /\ \E c \in Served, handle \in handles, rok \in roks, fail \in fails :
          /\ vtest_create_resource(c, handle, rok, fail)
          /\ client_error' = Failed(c)
    /\ hdr' = 0
    /\ UNCHANGED shadow

ResourceCreate2In(handles, sizes, roks, fails) ==
    /\ \E c \in Served, handle \in handles, shm_size \in sizes, rok \in roks,
          fail \in fails :
          /\ vtest_create_resource2(c, handle, shm_size, rok, fail)
          /\ client_error' = Failed(c)
    /\ hdr' = 0
    /\ UNCHANGED shadow

ResourceCreateBlobIn(mems, sizes, roks, fails) ==
    /\ \E c \in Served, blob_mem \in mems, size \in sizes, rok \in roks,
          fail \in fails :
          /\ vtest_resource_create_blob(c, blob_mem, size, rok, fail)
          /\ client_error' = Failed(c)
    /\ hdr' = 0
    /\ UNCHANGED shadow

TransferGetIn(versions, handles, sizes, offsets) ==
    /\ \E c \in Served, version \in versions, do_transfer \in BOOLEAN,
          hok \in BOOLEAN, handle \in handles, data_size \in sizes,
          offset \in offsets, rok \in BOOLEAN, write_ok \in BOOLEAN :
          /\ vtest_transfer_get(c, version, do_transfer, hok, handle, data_size,
                                offset, rok, write_ok)
          /\ client_error' = Failed(c)
    /\ hdr' = 0
    /\ UNCHANGED shadow

TransferPutIn(versions, handles, sizes, offsets) ==
    /\ \E c \in Served, version \in versions, do_transfer \in BOOLEAN,
          hok \in BOOLEAN, handle \in handles, data_size \in sizes,
          offset \in offsets, rok \in BOOLEAN, read_ok \in BOOLEAN :
          /\ vtest_transfer_put(c, version, do_transfer, hok, handle, data_size,
                                offset, rok, read_ok)
          /\ client_error' = Failed(c)
    /\ hdr' = 0
    /\ UNCHANGED shadow

ResourceUnrefIn(handles, roks) ==
    /\ \E c \in Served, handle \in handles, rok \in roks :
          /\ vtest_resource_unref(c, handle, rok)
          /\ client_error' = Failed(c)
    /\ hdr' = 0
    /\ UNCHANGED shadow

\* The connection of context c closes, or the dispatcher ends it.
DisconnectIn ==
    /\ busy_wait = NoBusyWait
    /\ \E c \in Active : \E order \in Orders(sync_table[c]) :
          /\ vtest_destroy_context(c, order)
          /\ client_error' = client_error \ { c }
    /\ hdr' = 0
    /\ UNCHANGED << shadow, CtxFields, multi_clients, busy_wait >>

\* ------------------------------------------- Spec: timelines and sync waits
\* SYNC_CREATE, SYNC_WRITE and SYNC_WAIT on two timelines, the waits in ALL
\* and ANY mode over one or two thresholds.
WriteValues == { << 1, 0 >>, << 0, 1 >> }
Thresholds == { << 0, 1 >> }
WaitFrames == WaitFramesOf({ 0, VCMD_SYNC_WAIT_FLAG_ANY }, { TimeoutForever },
                           TriplesOf(SyncIds, Thresholds), 2)

CreateContext == CreateContextIn({ 0 }, { << >> })
SyncCreate == SyncCreateIn({ << 0, 0 >> }, { TRUE }, { })
SyncWrite == SyncWriteIn(TriplesOf(SyncIds, WriteValues), { })
SyncWait == SyncWaitIn(WaitFrames, { TRUE }, { })

Next ==
    \/ CreateContext
    \/ SyncCreate
    \/ SyncWrite
    \/ SyncWait

Spec == Init /\ [][Next]_vars

\* ------------------------------------- SpecRW: create, write and read back
\* Only SYNC_CREATE, SYNC_WRITE and SYNC_READ on one context, over values
\* that use the low word, the high word and both.
WireValues == { << 0, 0 >>, << 1, 0 >>, << 0, 1 >>, << UINT_MAX, 0 >>,
                << UINT_MAX, UINT_MAX >> }

CreateValue == SyncCreateIn(WireValues, { TRUE }, { })
WriteValue == SyncWriteIn(TriplesOf(SyncIds, WireValues), { })
ReadValue == SyncReadIn(SyncIds)

NextRW ==
    \/ CreateContext
    \/ CreateValue
    \/ WriteValue
    \/ ReadValue

SpecRW == Init /\ [][NextRW]_vars

\* --------------------------------------------- SpecQueue: the sync queues
\* One timeline, SUBMIT_CMD2 batches that signal it through either sync
\* queue, waits on it with and without a deadline, the clock, and the
\* renderer completing context fences in any order.
QueueSync == Min(SyncIds)
QueueValues == { << 1, 0 >>, << 2, 0 >> }
QueueTriples == TriplesOf({ QueueSync }, QueueValues)
QueueWaitFrames == { << 0, timeout >> \o t : timeout \in { 1, TimeoutForever },
                                             t \in QueueTriples }
                     \ { << 0, 1, QueueSync, 2, 0 >> }

OneTriple == { << t >> : t \in QueueTriples }
QueuedBatches == BatchDescsOf({ VCMD_SUBMIT_CMD2_FLAG_SYNC_QUEUE }, OneTriple,
                              QueueIdx, { 1 })
QueuedFrames == { Cmd2Frame(<< b >>) : b \in QueuedBatches }
QueuedEnvs == { << EnvOk(a) >> : a \in Addrs }

QueueSyncCreate ==
    /\ next_sync_id <= QueueSync
    /\ SyncCreateIn({ << 0, 0 >> }, { TRUE }, { })
QueueSyncWait == SyncWaitIn(QueueWaitFrames, { TRUE }, { })
SubmitQueued == SubmitCmd2In(QueuedFrames, QueuedEnvs, { })
ContextFence == ContextFenceIn
Tick == TickIn({ 2 })

NextQueue ==
    \/ CreateContext
    \/ QueueSyncCreate
    \/ QueueSyncWait
    \/ SubmitQueued
    \/ ContextFence
    \/ Tick

SpecQueue == Init /\ [][NextQueue]_vars

\* ------------------------------------------ SpecBatch: SUBMIT_CMD2 frames
\* Frames of one and two batches, direct and queued, with a batch the
\* renderer refuses and a batch whose queue index is out of range.
BatchWaitFrames == { << 0, TimeoutForever >> \o t : t \in QueueTriples }
Batches == BatchDescsOf({ 0, VCMD_SUBMIT_CMD2_FLAG_SYNC_QUEUE }, OneTriple, { 0 }, { 1 })
BadQueueBatch == [ flags |-> 0, triples |-> << << QueueSync, 2, 0 >> >>,
                   qidx |-> VTEST_MAX_SYNC_QUEUE_COUNT, cmd_size |-> 1 ]
DirectBatch == [ flags |-> 0, triples |-> << << QueueSync, 2, 0 >> >>,
                 qidx |-> 0, cmd_size |-> 1 ]

OneBatchFrames == { Cmd2Frame(<< b >>) : b \in Batches \cup { BadQueueBatch } }
TwoBatchFrames == { Cmd2Frame(<< b1, b2 >>) :
                      b1 \in Batches, b2 \in { BadQueueBatch, DirectBatch } }

OneBatchEnvs == { << [ EnvOk(a) EXCEPT !.rok = rok ] >> : a \in Addrs, rok \in BOOLEAN }
TwoBatchEnvs == { << EnvOk(a), [ EnvOk(a) EXCEPT !.rok = rok ] >> :
                    a \in Addrs, rok \in BOOLEAN }

BatchSyncWait == SyncWaitIn(BatchWaitFrames, { TRUE }, { })
SubmitOneBatch == SubmitCmd2In(OneBatchFrames, OneBatchEnvs, { })
SubmitTwoBatches == SubmitCmd2In(TwoBatchFrames, TwoBatchEnvs, { })

NextBatch ==
    \/ CreateContext
    \/ QueueSyncCreate
    \/ BatchSyncWait
    \/ SubmitOneBatch
    \/ SubmitTwoBatches
    \/ ContextFence

SpecBatch == Init /\ [][NextBatch]_vars

\* ------------------------------------- SpecLen: frames longer than allowed
\* Every command that takes a length, each also with a header whose
\* length_dw is above a configured max_length / 4.
LongHeader == 14 + 3 * 3
MaxLengths == { 4 * 4, 4 * 13, 4 * LongHeader }
LenTriples == TriplesOf({ QueueSync }, { << 1, 0 >> })
LenWaitFrames == { << 0, TimeoutForever >> \o t : t \in LenTriples }
LenBatches == BatchDescsOf({ 0, VCMD_SUBMIT_CMD2_FLAG_SYNC_QUEUE },
                           { << t >> : t \in LenTriples }, { 0 }, { 1 })
LenFrames == { Cmd2Frame(<< b >>) : b \in LenBatches }

SetMaxLength == SetMaxLengthIn(MaxLengths)
LenSyncCreate ==
    /\ next_sync_id <= QueueSync
    /\ SyncCreateIn({ << 0, 0 >> }, { TRUE }, { LongHeader })
LenSyncWrite == SyncWriteIn(LenTriples, { LongHeader })
LenSyncWait == SyncWaitIn(LenWaitFrames, { TRUE }, { LongHeader })
LenSubmitCmd2 == SubmitCmd2In(LenFrames, { << EnvOk(a) >> : a \in Addrs }, { LongHeader })
LenSubmitCmd == SubmitCmdIn({ << 0 >>, << 0, 0, 0, 0, 0 >> }, { TRUE }, { LongHeader })
ImplicitFence == ImplicitFenceIn

NextLen ==
    \/ CreateContext
    \/ SetMaxLength
    \/ LenSyncCreate
    \/ LenSyncWrite
    \/ LenSyncWait
    \/ LenSubmitCmd2
    \/ LenSubmitCmd
    \/ ContextFence
    \/ ImplicitFence

SpecLen == Init /\ [][NextLen]_vars

\* ---------------------------- SpecCmd2: SUBMIT_CMD2 frames a client forges
\* One batch table entry whose fields are drawn from in-frame values and
\* from values whose sums and products leave the word, in a frame of
\* twelve words.
ForgedCounts == { 1, WordMod \div 8 }
ForgedOffsets == { 9, UINT_MAX }
ForgedSizes == { 0, 1, 3 }
ForgedSyncCounts == { 0, 1, (WordMod + 2) \div 3 }
ForgedQueues == { 0, VTEST_MAX_SYNC_QUEUE_COUNT - 1, VTEST_MAX_SYNC_QUEUE_COUNT }
ForgedFrames ==
    { << n, 0, co, cs, so, sc, q, 0, 0, 0, 0, 0 >> :
        n \in ForgedCounts, co \in ForgedOffsets, cs \in ForgedSizes,
        so \in ForgedOffsets, sc \in ForgedSyncCounts, q \in ForgedQueues }

\* The renderer may accept the commands where the handler then reads no
\* word outside the buffer: one batch, and no sync or a first sync triple
\* inside the frame (its id, 0, names no sync).
ReadsStayInside(buf) ==
    /\ Rd(buf, VCMD_SUBMIT_CMD2_BATCH_COUNT) = 1
    /\ DecodeBatch(buf, 0).sync_count = 0
         \/ DecodeBatch(buf, 0).sync_offset + 3 <= Len(buf)

ForgedEnvs(buf) ==
    { << [ EnvOk(a) EXCEPT !.rok = rok ] >> :
        a \in Addrs, rok \in { FALSE } \cup { ReadsStayInside(buf) } }

SubmitForged ==
    /\ \E c \in Active, buf \in ForgedFrames : \E env \in ForgedEnvs(buf) :
          /\ vtest_submit_cmd2(c, Len(buf), buf, env)
          /\ hdr' = Len(buf)
    /\ UNCHANGED << shadow, CtxFields, ServerVars >>

NextCmd2 ==
    \/ CreateContext
    \/ SubmitForged

SpecCmd2 == Init /\ [][NextCmd2]_vars

\* ------------------------- SpecRollback: batches that name a missing sync
\* Frames of one batch, direct and queued, whose sync triples name the one
\* sync that exists, a sync id that was never created, or the first and
\* then the second, while waits on the sync are pending.
MissingSync == QueueSync + 1
RollbackTriples ==
    { << << QueueSync, 1, 0 >> >>,
      << << MissingSync, 1, 0 >> >>,
      << << QueueSync, 1, 0 >>, << MissingSync, 1, 0 >> >>,
      << << QueueSync, 1, 0 >>, << QueueSync, 2, 0 >> >> }
RollbackBatches == BatchDescsOf({ 0, VCMD_SUBMIT_CMD2_FLAG_SYNC_QUEUE },
                                RollbackTriples, { 0 }, { 1 })
RollbackFrames == { Cmd2Frame(<< b >>) : b \in RollbackBatches }

SubmitRollback == SubmitCmd2In(RollbackFrames, QueuedEnvs, { })

NextRollback ==
    \/ CreateContext
    \/ QueueSyncCreate
    \/ BatchSyncWait
    \/ SubmitRollback
    \/ ContextFence

SpecRollback == Init /\ [][NextRollback]_vars

\* ------------- SpecNegotiate: protocol version, capset and the busy probe
\* One connection at a time on a server in either mode: PROTOCOL_VERSION
\* with guest versions below, at and above the server's, CONTEXT_INIT with
\* two capset ids and zero, the first operation that needs the renderer's
\* context, RESOURCE_BUSY_WAIT with and without a handle, closed and
\* reopened connections.
GuestVersions == 0 .. (VTEST_PROTOCOL_VERSION + 1)
VersionFrames == { << >> } \cup { << v >> : v \in GuestVersions }
CapsetIds == 0 .. 2
CapsetFrames == { << >> } \cup { << id >> : id \in CapsetIds }
BusyHandles == 0 .. 1
BusyFrames == { << >> } \cup
              { << h, f >> : h \in BusyHandles, f \in { 0, VCMD_BUSY_WAIT_FLAG_WAIT } }

NegotiateVersion == ProtocolVersionIn(VersionFrames, BOOLEAN, BOOLEAN)
InitContext == ContextInitIn(CapsetFrames, BOOLEAN)
FirstOp == FirstOperationIn(BOOLEAN)
ProbeBusy == BusyWaitIn(BusyFrames, BOOLEAN)
Disconnect == DisconnectIn

NextNegotiate ==
    \/ CreateContext
    \/ NegotiateVersion
    \/ InitContext
    \/ FirstOp
    \/ ProbeBusy
    \/ Disconnect

SpecNegotiate == InitAnyMode /\ [][NextNegotiate]_vars

\* ---------------- SpecLegacy: SUBMIT_CMD, implicit fences and the busy wait
\* One connection submits legacy command buffers, the renderer completes
\* the implicit fences it was given in any order, and RESOURCE_BUSY_WAIT
\* asks with and without the WAIT flag.
LegacyBuffers == { << 0 >> }
LegacySubmit == LegacySubmitIn(LegacyBuffers, BOOLEAN)
WaitBusy == BusyWaitIn(BusyFrames, BOOLEAN)
PollLoop == BusyWaitLoopIn

NextLegacy ==
    \/ CreateContext
    \/ FirstOp
    \/ LegacySubmit
    \/ ImplicitFence
    \/ WaitBusy
    \/ PollLoop
    \/ Disconnect

SpecLegacy == Init /\ [][NextLegacy]_vars

\* The renderer completes every fence it was given, and a handler in its
\* poll loop keeps coming round.
SpecLegacyFair == SpecLegacy /\ WF_vars(ImplicitFence) /\ WF_vars(PollLoop)

\* The renderer completes implicit fences in the order of their ids.
ImplicitFenceInOrder ==
    /\ \E id \in implicit_pending :
          /\ \A other \in implicit_pending : id <= other
          /\ vtest_write_implicit_fence(id)
    /\ hdr' = 0
    /\ UNCHANGED << shadow, CtxFields, ServerVars >>

NextLegacyInOrder ==
    \/ CreateContext
    \/ FirstOp
    \/ LegacySubmit
    \/ ImplicitFenceInOrder
    \/ WaitBusy
    \/ PollLoop
    \/ Disconnect

SpecLegacyInOrder ==
    /\ Init /\ [][NextLegacyInOrder]_vars
    /\ WF_vars(ImplicitFenceInOrder) /\ WF_vars(PollLoop)

\* ------------------------------------- SpecWait: registering a sync wait
\* One context, two timelines created one after the other and written to 1,
\* and SYNC_WAIT in ALL and ANY mode over up to two thresholds of 1, with
\* timeout 0 and without a deadline, whose reply succeeds or fails.  A wait
\* sent before the second timeline exists names a missing sync id.
RegisterValues == { << 1, 0 >> }
RegisterTriples == TriplesOf(SyncIds, RegisterValues)
RegisterFrames == WaitFramesOf({ 0, VCMD_SYNC_WAIT_FLAG_ANY }, { 0, TimeoutForever },
                               RegisterTriples, 2)

RegisterWrite == SyncWriteIn(RegisterTriples, { })
RegisterWait == SyncWaitIn(RegisterFrames, BOOLEAN, { })

NextWait ==
    \/ CreateContext
    \/ SyncCreate
    \/ RegisterWrite
    \/ RegisterWait

SpecWait == Init /\ [][NextWait]_vars

\* ------------------------------------ SpecExpire: waits past their deadline
\* One timeline written to 1 and 2 in any order, so that some writes raise
\* it and some do not, waits on it with a deadline of 1 ms and without one,
\* the clock, and the context destroyed and created again.
ExpireTriples == TriplesOf({ QueueSync }, QueueValues)
ExpireFrames == WaitFramesOf({ 0, VCMD_SYNC_WAIT_FLAG_ANY }, { 1, TimeoutForever },
                             ExpireTriples, 1)

ExpireWrite == SyncWriteIn(ExpireTriples, { })
ExpireWait == SyncWaitIn(ExpireFrames, { TRUE }, { })
DestroyContext == DestroyContextIn(CtxIds)

NextExpire ==
    \/ CreateContext
    \/ QueueSyncCreate
    \/ ExpireWrite
    \/ ExpireWait
    \/ Tick
    \/ DestroyContext

SpecExpire == Init /\ [][NextExpire]_vars

\* ------------------------------------------ SpecRefs: who holds a sync
\* One timeline that is created, unreferenced by SYNC_UNREF and created
\* again, queued batches and waits that hold it, fences completed in any
\* order, and the context destroyed and created again.
RefsTriples == TriplesOf({ QueueSync }, { << 1, 0 >> })
RefsWaitFrames == WaitFramesOf({ 0 }, { TimeoutForever }, RefsTriples, 1)
RefsBatches == BatchDescsOf({ VCMD_SUBMIT_CMD2_FLAG_SYNC_QUEUE },
                            { << t >> : t \in RefsTriples }, QueueIdx, { 1 })
RefsFrames == { Cmd2Frame(<< b >>) : b \in RefsBatches }

RefsUnref == SyncUnrefIn({ QueueSync })
RefsSyncCreate == SyncCreateIn({ << 0, 0 >> }, { TRUE }, { })
RefsWait == SyncWaitIn(RefsWaitFrames, { TRUE }, { })
RefsWrite == SyncWriteIn(RefsTriples, { })
RefsSubmit == SubmitCmd2In(RefsFrames, QueuedEnvs, { })

NextRefs ==
    \/ CreateContext
    \/ RefsSyncCreate
    \/ RefsUnref
    \/ RefsWait
    \/ RefsWrite
    \/ RefsSubmit
    \/ ContextFence
    \/ DestroyContext

SpecRefs == Init /\ [][NextRefs]_vars

\* ------------------------------ SpecRes: resource records and their ids
\* One connection at a time negotiates protocol 0, 2 or 3 and creates
\* resources with and without a handle of its own, with and without shared
\* memory, each call of the way failing in turn; it drops handles that
\* exist and handles that do not, and connections close and reopen, so
\* records come back through the free list.  Blob resources are created in
\* guest and in host memory.
ResHandles == 0 .. 2
ResFails == { "none", "create", "write", "shm", "send_fd" }
ResVersionFrames == { << 2 >>, << 3 >> }

SetCurrent == SetCurrentContextIn
ResNegotiate ==
    /\ ProtocolVersionIn(ResVersionFrames, { TRUE }, { TRUE })
    /\ ev'.ctx = current_context
ResCreate == ResourceCreateIn(ResHandles, BOOLEAN, ResFails \ { "shm", "send_fd" })
ResCreate2 == ResourceCreate2In(ResHandles, { 0, 1 }, { TRUE }, ResFails)
ResCreateBlob == ResourceCreateBlobIn({ "GUEST", "HOST3D", "OTHER" }, { 1 }, { TRUE },
                                     { "none", "create" })
ResUnref == ResourceUnrefIn(ResHandles, BOOLEAN)

NextRes ==
    \/ CreateContext
    \/ SetCurrent
    \/ ResNegotiate
    \/ ResCreate
    \/ ResCreate2
    \/ ResCreateBlob
    \/ ResUnref
    \/ Disconnect

SpecRes == Init /\ [][NextRes]_vars

\* ------------------------------- SpecDestroy: what a closed context held
\* A context that is made current, creates a sync and resources, leaves a
\* pending wait and a queued submit behind, and is destroyed with any of
\* them in place; its record is taken again by the next connection.
DestroyResCreate == ResourceCreateIn({ 0 }, { TRUE }, { "none" })

NextDestroy ==
    \/ CreateContext
    \/ SetCurrent
    \/ RefsSyncCreate
    \/ RefsWait
    \/ RefsSubmit
    \/ DestroyResCreate
    \/ DestroyContext

SpecDestroy == Init /\ [][NextDestroy]_vars

\* ------------------------------ SpecLazy: the renderer's side of a context
\* SpecNegotiate's connections, with vtest_lazy_init_context called before
\* any command, on contexts that are initialized as on ones that are not.
LazyInit == LazyInitIn(BOOLEAN)

NextLazy ==
    \/ CreateContext
    \/ NegotiateVersion
    \/ InitContext
    \/ LazyInit
    \/ Disconnect

SpecLazy == InitAnyMode /\ [][NextLazy]_vars

\* ------------------------------- SpecCalls: handlers the renderer refuses
\* One connection at a time runs the commands that call into the renderer
\* (RESOURCE_CREATE2 with and without shared memory, RESOURCE_CREATE_BLOB in
\* guest and host memory, the TRANSFER commands in both versions, with and
\* without the transfer, SUBMIT_CMD), and each renderer call succeeds or
\* fails.  SUBMIT_CMD2 and its fences are SpecBatch's.
CallsCreate == ResourceCreate2In({ 0 }, { 0, 1 }, { TRUE }, { "none", "create" })
CallsCreateBlob == ResourceCreateBlobIn({ "GUEST", "HOST3D" }, { 1 }, { TRUE },
                                       { "none", "create", "export" })
CallsGet == TransferGetIn({ 1, 2 }, { 1, 2 }, { 0, 1 }, { 0, 1 })
CallsPut == TransferPutIn({ 1, 2 }, { 1, 2 }, { 0, 1 }, { 0 })

NextCalls ==
    \/ CreateContext
    \/ SetCurrent
    \/ CallsCreate
    \/ CallsCreateBlob
    \/ CallsGet
    \/ CallsPut
    \/ LegacySubmit
    \/ Disconnect

SpecCalls == Init /\ [][NextCalls]_vars

\* ------------------------------------- SpecCreate: names of every length
\* Connections that announce a name of 0 or 1 byte, of 1 MiB and of one byte
\* more, and send it whole or not at all; a context that was created
\* negotiates and initializes, is destroyed, and its record is taken again.
NameLengths == { 0, 1, 1024 * 1024, 1024 * 1024 + 1 }
CreateNamed == CreateContextIn(NameLengths, { << >>, << 0 >> })

NextCreate ==
    \/ CreateNamed
    \/ SetCurrent
    \/ NegotiateVersion
    \/ InitContext
    \/ Disconnect

SpecCreate == Init /\ [][NextCreate]_vars

\* ------------------------------ SpecInline: fences completed inside the call
\* Queued batches whose fence the renderer completes later, in any order, or
\* inside virgl_renderer_context_create_fence, before the handler links the
\* submit into its queue.
InlineEnvs == { << [ EnvOk(a) EXCEPT !.cb = cb ] >> : a \in Addrs, cb \in BOOLEAN }

SubmitInline == SubmitCmd2In(QueuedFrames, InlineEnvs, { })

NextInline ==
    \/ CreateContext
    \/ QueueSyncCreate
    \/ QueueSyncWait
    \/ SubmitInline
    \/ ContextFence

SpecInline == Init /\ [][NextInline]_vars

\* --------------------------------- SpecWaitLen: SYNC_WAIT of every length
\* SYNC_WAIT frames whose header says 0 to 8 words, the stream holding at
\* least that many, over one timeline.
WaitLenTriples == TriplesOf({ QueueSync }, { << 1, 0 >> })
WaitLenFrames == UNION { { SubSeq(f, 1, n) : n \in 0 .. Len(f) } :
                           f \in WaitFramesOf({ 0, VCMD_SYNC_WAIT_FLAG_ANY },
                                              { 0, TimeoutForever },
                                              WaitLenTriples, 2) }
WaitLengths == 0 .. 8

WaitLenSyncWait == SyncWaitIn(WaitLenFrames, { TRUE }, WaitLengths)
WaitLenWrite == SyncWriteIn(WaitLenTriples, { })

NextWaitLen ==
    \/ CreateContext
    \/ QueueSyncCreate
    \/ WaitLenSyncWait
    \/ WaitLenWrite

SpecWaitLen == Init /\ [][NextWaitLen]_vars

\* --------------------------------------- SpecIso: two clients side by side
\* Two connections, each with its own timeline: reads, writes, waits with
\* and without a deadline and queued SUBMIT_CMD2 batches that name either
\* timeline, the clock, and fences completed in any order.
\* Both connect before the first timeline is made, and the k-th context
\* makes the k-th timeline.
IsoTriples == TriplesOf(SyncIds, { << 1, 0 >> })
IsoWaitFrames == { << 0, timeout >> \o t : timeout \in { 1, TimeoutForever },
                                           t \in IsoTriples }
IsoBatches == BatchDescsOf({ VCMD_SUBMIT_CMD2_FLAG_SYNC_QUEUE },
                           { << t >> : t \in IsoTriples }, { 0 }, { 1 })
IsoFrames == { Cmd2Frame(<< b >>) : b \in IsoBatches }

Connect == ConnectIn({ 0 }, { << >> })
IsoSyncCreate ==
    /\ Len(active_contexts) = MaxContexts
    /\ SyncCreateIn({ << 0, 0 >> }, { TRUE }, { })
    /\ ev'.ctx = next_sync_id
IsoRead == SyncReadIn(SyncIds)
IsoWrite == SyncWriteIn(IsoTriples, { })
IsoWait == SyncWaitIn(IsoWaitFrames, { TRUE }, { })
IsoSubmit == SubmitCmd2In(IsoFrames, { << EnvOk(Min(FreeCells(submits) \cup { MaxSubmits })) >> }, { })

NextIso ==
    \/ Connect
    \/ IsoSyncCreate
    \/ IsoRead
    \/ IsoWrite
    \/ IsoWait
    \/ IsoSubmit
    \/ ContextFence
    \/ Tick

SpecIso == Init /\ [][NextIso]_vars

\* --------------------------- SpecFresh: what a new connection starts with
\* Two connections at a time, with names read whole or cut short; the one
\* being served negotiates, initializes, creates a timeline and a resource,
\* leaves a wait and a queued submit behind, in this order, and closes at
\* any point of it, and the records are taken again while the other
\* connection is still open; the renderer completes the fences it was
\* given whenever it likes, also after the connection has closed.
FreshWaitFrames == { << 0, TimeoutForever >> \o t : t \in IsoTriples }

FreshConnect == ConnectIn({ 0, 1 }, { << >> })
FreshNegotiate ==
    /\ ProtocolVersionIn({ << 3 >> }, { TRUE }, { TRUE })
    /\ ev'.ctx = current_context
    /\ protocol_version[current_context] = 0
FreshInit ==
    /\ ContextInitIn({ << 1 >> }, { TRUE })
    /\ ev'.ctx = current_context
    /\ protocol_version[current_context] # 0
    /\ ~context_initialized[current_context]
FreshSyncCreate ==
    /\ RefsSyncCreate
    /\ ev'.ctx = current_context
    /\ context_initialized[current_context]
    /\ sync_table[current_context] = { }
FreshWait ==
    /\ SyncWaitIn(FreshWaitFrames, { TRUE }, { })
    /\ ev'.ctx = current_context
    /\ resource_table[current_context] # { }
    /\ sync_waits[current_context] = << >>
    /\ ev'.ret = "OK"
FreshSubmit ==
    /\ IsoSubmit
    /\ ev'.ctx = current_context
    /\ sync_waits[current_context] # << >>
    /\ sync_queues[current_context] = EmptyQueues
    /\ ev'.ret = "OK"
FreshResCreate ==
    /\ DestroyResCreate
    /\ sync_table[current_context] # { }
    /\ resource_table[current_context] = { }

NextFresh ==
    \/ FreshConnect
    \/ SetCurrent
    \/ FreshNegotiate
    \/ FreshInit
    \/ FreshSyncCreate
    \/ FreshWait
    \/ FreshSubmit
    \/ FreshResCreate
    \/ ContextFence
    \/ Disconnect

SpecFresh == Init /\ [][NextFresh]_vars

\* =================================================================== claims
\* Everything but the record of the last step.
Untouched == << max_length, implicit_fence_submitted, implicit_fence_completed,
                implicit_pending, active_contexts, free_contexts, next_context_id,
                syncs, free_syncs, next_sync_id, sync_table, sync_queues, submits,
                fences, sync_waits, now >>

LastCall(e) == e.rcalls[Len(e.rcalls)]

WrittenFds(e) == { e.written[k].fd : k \in 1 .. Len(e.written) }

AllQueuesEmpty == \A c \in CtxIds, q \in QueueIdx : sync_queues[c][q] = << >>

\* C1: the value of a live sync never becomes smaller than a value it held
\* earlier: no step (SYNC_WRITE, SUBMIT_CMD2 signal, queue release) lowers
\* the value of a sync that is live before and after it.
C1_ValueNeverDecreases ==
    [][\A s \in SyncIds :
          (syncs[s].refcount > 0 /\ syncs'[s].refcount > 0)
             => syncs'[s].value >= syncs[s].value]_vars

\* C2: over SYNC_CREATE, SYNC_WRITE and SYNC_READ on one context, a
\* successful SYNC_READ(S) answers the two words of the most recent
\* SYNC_WRITE(S, v), or of the SYNC_CREATE when S was never written, and
\* these words decode to the 64-bit value the sync holds.
C2_ReadReturnsLastWritten ==
    (ev.op = "sync_read" /\ ev.ret = "OK")
       => /\ ev.resp = shadow[ev.arg]
          /\ DecodeValue(ev.resp[1], ev.resp[2]) = syncs[ev.arg].value

\* A read that answers a value with every bit of both words set.
C2_ReadBothWords ==
    /\ ev.op = "sync_read"
    /\ ev.ret = "OK"
    /\ ev.resp = << UINT_MAX, UINT_MAX >>
    /\ shadow[ev.arg] = << UINT_MAX, UINT_MAX >>

\* A requested pair holds when its sync's value is at or above the threshold
\* at the moment of the write (a pair whose sync record was freed meanwhile
\* names no timeline any more).
PairHolds(w, i) == w.req[i].dead \/ w.vals[i] >= w.req[i].value

\* C3: whenever the server writes a wait's event fd, at that moment every
\* requested (sync, threshold) pair holds if ANY is clear, and at least one
\* holds if ANY is set (requests of at least one pair).
C3_WrittenWaitIsSatisfied ==
    \A k \in 1 .. Len(ev.written) :
       LET w == ev.written[k] IN
       Len(w.req) > 0 =>
          IF FlagAny(w.flags)
          THEN \E i \in 1 .. Len(w.req) : PairHolds(w, i)
          ELSE \A i \in 1 .. Len(w.req) : PairHolds(w, i)

\* The signals a queued submit holds, in slot order.
SubmitSignals(a) ==
    [ j \in 1 .. Len(submits[a].syncs) |->
        [ sync |-> submits[a].syncs[j], value |-> submits[a].values[j] ] ]

PrefixSignals(queue, k) == Flatten([ i \in 1 .. k |-> SubmitSignals(queue[i]) ])

\* A wait on one threshold of one sync.
SingleWait(w) == w.count = 1 /\ Len(w.syncs) = 1 /\ w.syncs[1] # NULL

Unexpired(w) == w.valid_before >= now

HoldsB1B2(c, q) ==
    /\ Len(sync_queues[c][q]) = 2
    /\ PrefixSignals(sync_queues[c][q], 2)
          = << [ sync |-> QueueSync, value |-> 1 ], [ sync |-> QueueSync, value |-> 2 ] >>
    /\ \A c2 \in CtxIds, q2 \in QueueIdx :
          << c2, q2 >> # << c, q >> => sync_queues[c2][q2] = << >>

\* The step is the callback of B2's fence.
B2CallbackOn(c, q) ==
    /\ HoldsB1B2(c, q)
    /\ ev'.op = "fence"
    /\ ~ev'.stale
    /\ ev'.arg = sync_queues[c][q][2]

\* The waits on one threshold, 1 or 2, of the sync.
WaitsOnOneAndTwo(c) ==
    { i \in 1 .. Len(sync_waits[c]) :
        /\ SingleWait(sync_waits[c][i])
        /\ sync_waits[c][i].syncs[1] = QueueSync
        /\ sync_waits[c][i].values[1] \in { 1, 2 } }

\* The state B2's callback leaves, B1's fence still to complete.
AfterB2Callback ==
    /\ ev.op = "fence"
    /\ ~ev.stale
    /\ ev.signals = << [ sync |-> QueueSync, value |-> 1 ],
                       [ sync |-> QueueSync, value |-> 2 ] >>
    /\ AllQueuesEmpty

\* B1's callback, run on that state, is a no-op.
B1CallbackIsNoOp ==
    (AfterB2Callback /\ ev'.op = "fence" /\ ev'.stale)
       => /\ syncs'[QueueSync].value = 2
          /\ AllQueuesEmpty'
          /\ ev'.popped = << >>
          /\ ev'.signals = << >>
          /\ UNCHANGED sync_waits

C6_DrainedCallbackIsNoOp ==
    [][(ev'.op = "fence" /\ ev'.stale)
          => /\ ev'.popped = << >>
             /\ \A s \in SyncIds : syncs'[s].value = syncs[s].value]_vars

LengthChecked == { "submit_cmd", "submit_cmd2", "sync_wait" }

FixedSize == { "sync_create", "sync_write" }

RejectedUntouched ==
    /\ ev'.ret # "OK"
    /\ ev'.nread = 0
    /\ Untouched' = Untouched

BatchOutOfFrameExact(batch, length_dw) ==
    \/ batch.cmd_offset + batch.cmd_size > length_dw
    \/ batch.sync_offset + batch.sync_count * 3 > length_dw
    \/ batch.sync_queue_index >= VTEST_MAX_SYNC_QUEUE_COUNT

\* C8: a batch is handed to the renderer only if the batch table and the
\* batch's ranges lie inside the frame, the sums and products taken as
\* mathematical integers: 8 * batch_count <= length_dw, cmd_offset +
\* cmd_size <= length_dw, sync_offset + 3 * sync_count <= length_dw, and
\* sync_queue_index below the queue count.
C8_HandedBatchLiesInFrame ==
    ev.op = "submit_cmd2" =>
       \A k \in 1 .. Len(ev.rcalls) :
          /\ 8 * ev.arg <= hdr
          /\ ~BatchOutOfFrameExact(ev.rcalls[k].batch, hdr)

\* C9: when SUBMIT_CMD2 rejects a frame with Invalid for a batch's queue
\* index or offsets (not for a refusal of the renderer), no batch of the
\* frame was submitted to the renderer and no sync value, refcount or
\* queue has changed.
C9_RejectedFrameHasNoEffect ==
    [][( /\ ev'.op = "submit_cmd2"
         /\ ev'.ret = "EINVAL"
         /\ \A k \in 1 .. Len(ev'.rcalls) : ev'.rcalls[k].ok )
          => /\ ev'.rcalls = << >>
             /\ UNCHANGED << syncs, free_syncs, sync_queues >>]_vars

\* C10: when the renderer refuses a batch's commands, SUBMIT_CMD2 returns
\* Invalid and the sync values, refcounts, queues and pending waits are
\* what they were when the batch was handed over.
C10_RefusedBatchChangesNothing ==
    [][( /\ ev'.op = "submit_cmd2"
         /\ ev'.rcalls # << >>
         /\ ~LastCall(ev').ok )
          => /\ ev'.ret = "EINVAL"
             /\ << syncs', free_syncs', sync_queues', submits' >>
                   = << LastCall(ev').at[1], LastCall(ev').at[2],
                        LastCall(ev').at[4], LastCall(ev').at[5] >>
             /\ sync_waits' = MarkDead(LastCall(ev').at[3], LastCall(ev').at[1])]_vars

\* The renderer refused the second batch of a frame whose first batch had
\* signalled the sync, while a wait was pending.
C10_SecondBatchRefused ==
    /\ ev.op = "submit_cmd2"
    /\ Len(ev.rcalls) = 2
    /\ ~ev.rcalls[2].ok
    /\ ev.signals # << >>
    /\ \E c \in CtxIds : sync_waits[c] # << >>

\* The sync ids the first batch of a SUBMIT_CMD2 payload names.
BatchSyncIds(buf) ==
    LET batch == DecodeBatch(buf, 0) IN
    { Rd(buf, batch.sync_offset + 3 * i) : i \in 0 .. (batch.sync_count - 1) }

\* The step is a SUBMIT_CMD2 of one batch that the renderer accepted, that
\* found memory for its submit and that names a sync id the context's
\* table does not hold.
BatchNamesMissingSync ==
    /\ ev'.op = "submit_cmd2"
    /\ Len(ev'.rcalls) = 1
    /\ ev'.rcalls[1].ok
    /\ ev'.ret # "ENOMEM"
    /\ BatchSyncIds(ev'.req) \ sync_table[ev'.ctx] # { }

Refcounts == [ s \in SyncIds |-> syncs[s].refcount ]

\* C11: a batch that names a sync id missing from the table
\* fails with Exists, every sync's refcount is what it was before the
\* batch, no submit is appended to a queue and no fence is created.
C11_MissingSyncRollsBack ==
    [][BatchNamesMissingSync
          => /\ ev'.ret = "EEXIST"
             /\ Refcounts' = Refcounts
             /\ sync_queues' = sync_queues
             /\ fences' = fences]_vars

\* What the rollback at lines 2053-2059 does give: such a batch fails with
\* Exists, appends no submit and creates no fence, and when it has the
\* SYNC_QUEUE flag every sync's refcount and value is what it was before
\* the batch.  Without the flag the syncs named before the missing one have
\* been signalled, which releases the references of the waits resolved.
QueuedBatchRollsBack ==
    [][BatchNamesMissingSync
          => /\ ev'.ret = "EEXIST"
             /\ sync_queues' = sync_queues
             /\ fences' = fences
             /\ submits' = submits
             /\ (ev'.rcalls[1].batch.flags % 2) = VCMD_SUBMIT_CMD2_FLAG_SYNC_QUEUE
                   => UNCHANGED << syncs, free_syncs, sync_waits >>]_vars

\* A queued batch named the sync and then a missing id while a wait held a
\* reference on the sync: the reference the batch took is given back.
QueuedBatchRolledBack ==
    /\ ev.op = "submit_cmd2"
    /\ ev.ret = "EEXIST"
    /\ Len(ev.rcalls) = 1
    /\ (ev.rcalls[1].batch.flags % 2) = VCMD_SUBMIT_CMD2_FLAG_SYNC_QUEUE
    /\ ev.rcalls[1].batch.sync_count = 2
    /\ syncs[QueueSync].refcount = 2
    /\ \E c \in CtxIds : Len(sync_waits[c]) = 1

\* The version section 4.6 has the server answer to a guest's version.
NegotiatedVersion(guest, shm) ==
    LET least == IF guest <= VTEST_PROTOCOL_VERSION
                 THEN guest ELSE VTEST_PROTOCOL_VERSION
    IN  IF ~shm \/ least = 1 THEN 0 ELSE least

\* C12: PROTOCOL_VERSION replies with the smaller of the guest's and the
\* server's version, with 0 in place of 1 and with 0 when shared memory is
\* unavailable, and the context's protocol_version is the replied value,
\* never 1; in multi-client mode a result below 3 is rejected with Invalid,
\* nothing is replied and the context's protocol_version is unchanged.
C12_VersionIsNegotiated ==
    [][ev'.op = "protocol_version" /\ ev'.nread = 1
          => LET v == NegotiatedVersion(ev'.req[1], ev'.arg = 1) IN
             IF multi_clients /\ v < 3
             THEN /\ ev'.ret = "EINVAL"
                  /\ ev'.resp = << >>
                  /\ protocol_version' = protocol_version
             ELSE /\ ev'.ret = "OK" => /\ ev'.resp = << v >>
                                       /\ protocol_version'[ev'.ctx] = v
                  /\ ev'.ret # "OK" => ev'.resp = << >>
                  /\ protocol_version'[ev'.ctx] # 1]_vars

\* A multi-client server has rejected a guest's version 2 on a context that
\* had negotiated version 3, and the context still has version 3.
C12_LowVersionRejected ==
    /\ multi_clients
    /\ ev.op = "protocol_version"
    /\ ev.req = << 2 >>
    /\ ev.ret = "EINVAL"
    /\ protocol_version[ev.ctx] = 3

SameCapsetAccepted ==
    /\ ev.op = "context_init"
    /\ ev.req = << 1 >>
    /\ ev.ret = "OK"
    /\ ev.rcalls = << >>
    /\ capset_id[ev.ctx] = 1

\* C14: implicit_fence_completed never exceeds implicit_fence_submitted and
\* neither counter ever decreases, whatever SUBMIT_CMD commands and
\* completion callbacks for created fence ids arrive.
C14_ImplicitCountersOrdered ==
    /\ [](implicit_fence_completed <= implicit_fence_submitted)
    /\ [][/\ implicit_fence_submitted' >= implicit_fence_submitted
          /\ implicit_fence_completed' >= implicit_fence_completed]_vars

\* The half of C14 the code keeps: completed never exceeds submitted and
\* submitted never decreases.
CompletedAtMostSubmitted ==
    /\ [](implicit_fence_completed <= implicit_fence_submitted)
    /\ [][implicit_fence_submitted' >= implicit_fence_submitted]_vars

\* A RESOURCE_BUSY_WAIT request has the WAIT flag.
HasWaitFlag(req) == (req[2] % 2) = VCMD_BUSY_WAIT_FLAG_WAIT

\* A reply of RESOURCE_BUSY_WAIT says busy exactly when the counters differ
\* as it is written, a request without the WAIT flag is answered in the
\* step that reads it, and a request with it is answered busy = 0.
BusyReplyIsCounterTest ==
    [][/\ ev'.op = "busy_wait" /\ ev'.ret = "OK"
             => /\ ev'.resp = << IF implicit_fence_submitted' #
                                      implicit_fence_completed' THEN 1 ELSE 0 >>
                /\ HasWaitFlag(ev'.req) => ev'.resp = << 0 >>
       /\ ev'.op = "busy_wait_poll" => HasWaitFlag(ev'.req)
       /\ busy_wait' # NoBusyWait => HasWaitFlag(busy_wait'.req)]_vars

\* C15: RESOURCE_BUSY_WAIT replies busy = 1 exactly when the counters
\* differ at the reply, at once without the WAIT flag, and with the WAIT
\* flag only when they are equal, which it eventually does when the
\* renderer completes every implicit fence it was given.
C15_BusyWaitReplies ==
    /\ BusyReplyIsCounterTest
    /\ (busy_wait # NoBusyWait) ~> (busy_wait = NoBusyWait)

\* A handler is in its poll loop and the renderer has completed every
\* fence it was given.
BusyWaitStuck ==
    /\ busy_wait # NoBusyWait
    /\ implicit_pending = { }
    /\ implicit_fence_completed # implicit_fence_submitted

\* C16: before the renderer context of a connection is initialized a
\* RESOURCE_BUSY_WAIT with handle 0 is accepted and answered and one with
\* another handle fails with nothing written; after initialization every
\* handle is accepted.
C16_PreludeTakesHandleZero ==
    [][ev'.op \in { "busy_wait", "busy_wait_poll" } /\ ev'.nread = 2
          => IF ~context_initialized[ev'.ctx] /\ ev'.req[1] # 0
             THEN /\ ev'.op = "busy_wait"
                  /\ ev'.ret = "ERR"
                  /\ ev'.resp = << >>
             ELSE /\ ev'.ret \in { "OK", "EIO" }
                  /\ ev'.op = "busy_wait" /\ ev'.ret = "OK"
                        => Len(ev'.resp) = 1]_vars

\* A RESOURCE_BUSY_WAIT with handle 1 has failed on a context that is not
\* initialized.
C16_HandleRefusedBeforeInit ==
    /\ ev.op = "busy_wait"
    /\ ev.nread = 2
    /\ ev.req[1] = 1
    /\ ev.ret = "ERR"
    /\ ~context_initialized[ev.ctx]

\* Handle 0 has been answered before initialization, and handle 1 after.
HandleZeroAnsweredBeforeInit ==
    /\ ev.op = "busy_wait"
    /\ ev.nread = 2
    /\ ev.req[1] = 0
    /\ ev.resp = << 0 >>
    /\ ~context_initialized[ev.ctx]

HandleAnsweredAfterInit ==
    /\ ev.op = "busy_wait"
    /\ ev.nread = 2
    /\ ev.req[1] = 1
    /\ ev.resp = << 0 >>
    /\ context_initialized[ev.ctx]

\* The (sync_id, value) pairs of a SYNC_WAIT payload.
WaitPairs(req) ==
    [ i \in 1 .. ((Len(req) - 2) \div 3) |->
        [ sync |-> req[3 * i], value |-> DecodeValue(req[3 * i + 1], req[3 * i + 2]) ] ]

\* The step is a SYNC_WAIT that was read whole and got its event fd.
WaitRequested ==
    /\ ev'.op = "sync_wait"
    /\ ev'.ret \notin { "EINVAL", "ERR", "ENODEV" }

WaitNamesMissingSync ==
    \E i \in DOMAIN WaitPairs(ev'.req) :
       WaitPairs(ev'.req)[i].sync \notin sync_table[ev'.ctx]

\* Thresholds of the request that the syncs have reached before the step.
ReachedPairs(req) ==
    { i \in DOMAIN WaitPairs(req) :
        syncs[WaitPairs(req)[i].sync].value >= WaitPairs(req)[i].value }

ReadyAtOnce(req) ==
    \/ ReachedPairs(req) = DOMAIN WaitPairs(req)
    \/ /\ (req[1] % 2) = VCMD_SYNC_WAIT_FLAG_ANY
       /\ ReachedPairs(req) # { }

\* C17: a SYNC_WAIT whose thresholds are all reached, or that has the ANY
\* flag and one threshold reached, has its fd written and is freed without
\* being appended; one that is not ready is appended only if its timeout is
\* not 0 and the reply and the fd were sent, and is otherwise freed with
\* nothing written to its fd.
C17_ReadyWaitIsNotQueued ==
    [][WaitRequested /\ ~WaitNamesMissingSync
          => LET req == ev'.req
                 c == ev'.ctx
             IN  IF ReadyAtOnce(req)
                 THEN /\ Len(ev'.written) = 1
                      /\ ev'.written[1].fd = eventfd
                      /\ sync_waits' = sync_waits
                      /\ Refcounts' = Refcounts
                 ELSE /\ ev'.written = << >>
                      /\ IF req[2] # 0 /\ ev'.ret = "OK"
                         THEN /\ Len(sync_waits'[c]) = Len(sync_waits[c]) + 1
                              /\ SubSeq(sync_waits'[c], 1, Len(sync_waits[c]))
                                    = sync_waits[c]
                              /\ sync_waits'[c][Len(sync_waits'[c])].fd = eventfd
                              /\ ev'.resp = << eventfd >>
                         ELSE /\ sync_waits' = sync_waits
                              /\ Refcounts' = Refcounts]_vars

\* An ANY wait over a reached and an unreached threshold has had its fd
\* written and was not appended.
C17_AnyWaitReadyAtOnce ==
    /\ ev.op = "sync_wait"
    /\ ev.ret = "OK"
    /\ Len(ev.req) = 8
    /\ ev.req[1] = VCMD_SYNC_WAIT_FLAG_ANY
    /\ Len(ev.written) = 1
    /\ \E i \in 1 .. 2 : ev.written[1].vals[i] < ev.written[1].req[i].value
    /\ \A c \in CtxIds : sync_waits[c] = << >>

\* C18: a SYNC_WAIT that names a sync id missing from the context's table
\* fails with Exists, every sync's refcount is what it was before the
\* command, no wait is appended, no reply and no fd is sent, nothing is
\* written to the event fd and no wait holds it.
C18_MissingSyncFreesWait ==
    [][WaitRequested /\ WaitNamesMissingSync
          => /\ ev'.ret = "EEXIST"
             /\ Refcounts' = Refcounts
             /\ sync_waits' = sync_waits
             /\ ev'.resp = << >>
             /\ ev'.written = << >>
             /\ eventfd \notin UNION { { sync_waits'[c][i].fd :
                                           i \in 1 .. Len(sync_waits'[c]) } :
                                        c \in CtxIds }]_vars

\* A wait named an unreached threshold of the one sync and then a sync id
\* that was not created: it failed and the sync is referenced once.
C18_SecondSyncMissing ==
    /\ ev.op = "sync_wait"
    /\ ev.ret = "EEXIST"
    /\ Len(ev.req) = 8
    /\ ev.req[3] = 1
    /\ ev.req[6] = 2
    /\ syncs[1].refcount = 1
    /\ syncs[1].value = 0
    /\ syncs[2].refcount = 0

\* The event fds of the waits in a list.
FdsOf(waits) == { waits[i].fd : i \in 1 .. Len(waits) }

\* The k-th signal of a step raises its sync above the value the sync had
\* when the signal was applied.
SignalRaises(sig, k) ==
    LET earlier == { j \in 1 .. (k - 1) : sig[j].sync = sig[k].sync }
        last == CHOOSE j \in earlier : \A j2 \in earlier : j2 <= j
    IN  sig[k].value > IF earlier = { } THEN syncs[sig[k].sync].value
                       ELSE sig[last].value

\* The step made vtest_signal_sync walk the pending waits.
Walked == \E k \in 1 .. Len(ev'.signals) : SignalRaises(ev'.signals, k)

\* C19: a pending wait whose deadline has passed is removed without its fd
\* being written when a signal walks the waits, whatever value is
\* signalled, and it leaves the list only through such a walk, which a
\* signal makes only when it raises its sync's value, or through the
\* destruction of its context; until then it stays and is not notified.
C19_ExpiredWaitLeavesSilently ==
    [][\A c \in CtxIds : \A i \in 1 .. Len(sync_waits[c]) :
          LET w == sync_waits[c][i] IN
          ~Unexpired(w)
             => /\ w.fd \notin WrittenFds(ev')
                /\ Walked => /\ w.fd \notin FdsOf(sync_waits'[c])
                             /\ w.fd \in SeqToSet(ev'.collected)
                /\ w.fd \notin FdsOf(sync_waits'[c])
                      => Walked \/ ev'.op = "destroy_context"]_vars

\* A write raised the sync to 2, above every threshold waited for, and the
\* walk removed a wait past its deadline and wrote no fd.
C19_ExpiredWaitCollected ==
    /\ ev.op = "sync_write"
    /\ ev.signals = << [ sync |-> QueueSync, value |-> 2 ] >>
    /\ ev.collected # << >>
    /\ ev.written = << >>

\* A write that did not raise the sync has left a wait past its deadline in
\* the list.
ExpiredWaitStays ==
    /\ ev.op = "sync_write"
    /\ ev.signals = << [ sync |-> QueueSync, value |-> 1 ] >>
    /\ \E c \in CtxIds : \E i \in 1 .. Len(sync_waits[c]) :
          ~Unexpired(sync_waits[c][i])

\* The slots of a wait that still hold a sync.
LiveSlots(w) == { k \in 1 .. Len(w.syncs) : w.syncs[k] # NULL }

\* C20: for every wait in a context's sync_waits list, signaled_count plus
\* the number of slots that still hold a sync is the number of pairs that
\* were below their threshold when the wait was registered.
C20_WaitSlotsAccounted ==
    \A c \in CtxIds : \A i \in 1 .. Len(sync_waits[c]) :
       LET w == sync_waits[c][i] IN
       /\ w.count = Len(w.values)
       /\ w.signaled_count + Cardinality(LiveSlots(w)) = w.count

\* A pending wait for two thresholds has had one of them signalled.
C20_OneOfTwoSignalled ==
    \E c \in CtxIds : \E i \in 1 .. Len(sync_waits[c]) :
       LET w == sync_waits[c][i] IN
       /\ w.count = 2
       /\ w.signaled_count = 1
       /\ Cardinality(LiveSlots(w)) = 1

\* The references held on sync s: by sync tables, by the slots of the
\* submits on the heap, and by the non-null slots of the pending waits.
TableHolders(s) == { c \in CtxIds : s \in sync_table[c] }

SubmitHolders(s) ==
    UNION { { << a, i >> : i \in { j \in 1 .. Len(submits[a].syncs) :
                                       submits[a].syncs[j] = s } } :
            a \in { b \in Addrs : submits[b].state = "live" } }

WaitHolders(s) ==
    UNION { UNION { { << c, i, k >> : k \in { j \in 1 .. Len(sync_waits[c][i].syncs) :
                                                sync_waits[c][i].syncs[j] = s } } :
                    i \in 1 .. Len(sync_waits[c]) } :
            c \in CtxIds }

\* C21: each sync's refcount is the number of its holders, one for its
\* entry in a sync table, one per slot of a submit and one per non-null
\* slot of a pending wait; a sync is on the free list exactly when its
\* refcount is 0, and no refcount is taken below 0.
C21_RefcountCountsHolders ==
    \A s \in SyncIds :
       /\ syncs[s].refcount = Cardinality(TableHolders(s))
                                + Cardinality(SubmitHolders(s))
                                + Cardinality(WaitHolders(s))
       /\ syncs[s].refcount >= 0
       /\ s \in SeqToSet(free_syncs) <=> (s < next_sync_id /\ syncs[s].refcount = 0)
       /\ Cardinality({ i \in 1 .. Len(free_syncs) : free_syncs[i] = s }) <= 1

\* A sync is held by its table, by a queued submit and by a pending wait.
C21_ThreeHolders ==
    \E s \in SyncIds :
       /\ syncs[s].refcount = 3
       /\ TableHolders(s) # { }
       /\ SubmitHolders(s) # { }
       /\ WaitHolders(s) # { }

\* A sync that left its table is kept off the free list by a pending wait.
UnreferencedSyncHeld ==
    \E s \in SyncIds :
       /\ TableHolders(s) = { }
       /\ syncs[s].refcount > 0

\* ---------------------------------------------------------------- C23
\* A RESOURCE_CREATE or RESOURCE_CREATE2 request that was read.
CreateRequest(e) ==
    /\ e.op \in { "RESOURCE_CREATE", "RESOURCE_CREATE2" }
    /\ e.req # << >>

\* C23: a RESOURCE_CREATE / RESOURCE_CREATE2 request whose handle is
\* already a key of the context's resource table fails with EEXIST when the
\* context's protocol is below 3, and a request with a non-zero handle
\* fails with EINVAL when the protocol is 3 or more; either way the resource
\* table, the free list, the records and next_resource_id stay as they
\* were and the handler makes no renderer call.
C23_RejectedCreateChangesNothing ==
    [][ CreateRequest(ev') =>
          LET c == ev'.ctx
              handle == ev'.arg
              exists == \E a \in resource_table[c] : resources[a].res_id = handle
          IN  /\ (protocol_version[c] < 3 /\ exists)
                    => /\ ev'.ret = "EEXIST"
                       /\ ev'.rcalls = << >>
                       /\ UNCHANGED ResourceVars
              /\ (protocol_version[c] >= 3 /\ handle # 0)
                    => /\ ev'.ret = "EINVAL"
                       /\ ev'.rcalls = << >>
                       /\ UNCHANGED ResourceVars ]_vars

\* A protocol 2 client asked for a handle its table holds and was refused.
C23_DuplicateHandleRejected ==
    /\ CreateRequest(ev)
    /\ ev.ret = "EEXIST"
    /\ protocol_version[ev.ctx] = 2
    /\ \E a \in resource_table[ev.ctx] : resources[a].res_id = ev.arg

\* A protocol 3 client named a handle of its own and was refused.
ClientHandleRejected ==
    /\ CreateRequest(ev)
    /\ ev.ret = "EINVAL"
    /\ protocol_version[ev.ctx] = 3
    /\ ev.arg # 0

\* ---------------------------------------------------------------- C24
\* The records the contexts' tables hold.
LiveResources == UNION { resource_table[c] : c \in CtxIds }

\* No two records, and so no two live resources, have one server_res_id,
\* and every id handed out is below next_resource_id.
ServerIdsDistinct ==
    /\ \A a, b \in ResAddrs :
          (resources[a].alloc /\ resources[b].alloc /\ a # b)
             => resources[a].server_res_id # resources[b].server_res_id
    /\ \A a \in ResAddrs :
          resources[a].alloc => resources[a].server_res_id \in 1 .. (next_resource_id - 1)
    /\ \A c, d \in CtxIds : c # d => resource_table[c] \cap resource_table[d] = { }

\* C24: a new record gets the server_res_id next_resource_id held, which is
\* above every id handed out before, and a recycled record keeps its own; no
\* two records in the contexts' resource tables share a server_res_id; a
\* resource created while its context's protocol is 3 or more has res_id
\* equal to server_res_id, and the reply carries that id.
C24_ServerResIdsUnique ==
    [][ /\ ServerIdsDistinct'
        /\ \A a \in ResAddrs :
              IF resources[a].alloc
              THEN resources'[a].server_res_id = resources[a].server_res_id
              ELSE resources'[a].alloc
                      => /\ resources'[a].server_res_id = next_resource_id
                         /\ next_resource_id' = next_resource_id + 1
                         /\ \A b \in ResAddrs :
                               resources[b].alloc
                                  => resources[b].server_res_id < next_resource_id
        /\ \A c \in CtxIds : \A a \in resource_table'[c] \ resource_table[c] :
              protocol_version[c] >= 3
                 => /\ resources'[a].res_id = resources'[a].server_res_id
                    /\ ev'.resp = << 1, resources'[a].res_id >> ]_vars

\* A record that went through the free list is live again beside another
\* live record, in a protocol 3 context.
C24_RecycledBesideLive ==
    /\ ev.op \in { "RESOURCE_CREATE", "RESOURCE_CREATE2", "RESOURCE_CREATE_BLOB" }
    /\ ev.ret = "OK"
    /\ protocol_version[ev.ctx] = 3
    /\ Cardinality(LiveResources) = 2
    /\ \E a \in LiveResources :
          /\ resources[a].server_res_id < next_resource_id - 1
          /\ ev.resp = << 1, resources[a].server_res_id >>

\* ---------------------------------------------------------------- C22
\* The syncs context c holds: in its table, in a slot of a submit on one of
\* its queues, in a non-null slot of one of its waits.
HeldBy(c) ==
    sync_table[c]
    \cup UNION { SeqToSet(submits[a].syncs) : a \in SeqToSet(Teardown(c).submits) }
    \cup UNION { { sync_waits[c][i].syncs[k] :
                     k \in { j \in 1 .. Len(sync_waits[c][i].syncs) :
                                sync_waits[c][i].syncs[j] # NULL } } :
                   i \in 1 .. Len(sync_waits[c]) }

\* C22: vtest_destroy_context leaves every sync queue of the context
\* empty, changes no sync value, signals nothing and writes to no fd, leaves
\* the context without waits and with both tables empty; afterwards the
\* context is not in active_contexts and is not the current context, and
\* every sync it held has refcount 0 and is on the free list.
C22_DestroyReleasesEverything ==
    [][ ev'.op = "destroy_context" =>
          LET c == ev'.ctx IN
          /\ \A q \in QueueIdx : sync_queues'[c][q] = << >>
          /\ \A s \in SyncIds : syncs'[s].value = syncs[s].value
          /\ ev'.signals = << >>
          /\ ev'.written = << >>
          /\ sync_waits'[c] = << >>
          /\ sync_table'[c] = { }
          /\ resource_table'[c] = { }
          /\ c \notin SeqToSet(active_contexts')
          /\ current_context' # c
          /\ \A s \in HeldBy(c) :
                /\ syncs'[s].refcount = 0
                /\ s \in SeqToSet(free_syncs') ]_vars

\* The current context was destroyed while it had a queued submit, a
\* pending wait, a sync in its table and a resource.
C22_DestroyedWithWork ==
    /\ ev.op = "destroy_context"
    /\ current_context = NULL
    /\ ev.freed.submits # << >>
    /\ ev.freed.waits # << >>
    /\ free_resources # << >>
    /\ syncs[QueueSync].refcount = 0
    /\ free_syncs = << QueueSync >>

\* ---------------------------------------------------------------- C25
ContextCreateFns == { "context_create", "context_create_with_flags" }

\* The step ran vtest_lazy_init_context on context c.
LazyInitRan(e) ==
    \/ e.op = "lazy_init"
    \/ /\ e.op = "context_init"
       /\ e.nread = 1
       /\ e.req[1] # 0
       /\ ~context_initialized[e.ctx]

\* C25: vtest_lazy_init_context makes a renderer call only on a context
\* that is not initialized, and returns 0 without one on a context that is;
\* the call is context_create_with_flags exactly when the context's
\* capset_id is non-zero, and the context is initialized exactly when the
\* call succeeds; on a multi-client server a context with protocol_version
\* below 3 gets EINVAL and no call, so no context is initialized there with
\* a protocol below 3; an initialized context stays so until its record is
\* taken for a new connection; vtest_destroy_context calls
\* virgl_renderer_context_destroy exactly when the context is initialized.
C25_RendererContextOncePerLifetime ==
    [][ LET c == ev'.ctx IN
        /\ LazyInitRan(ev') =>
              /\ Len(ev'.rcalls) <= 1
              /\ context_initialized[c]
                    => /\ ev'.rcalls = << >>
                       /\ ev'.ret = "OK"
                       /\ context_initialized'[c]
              /\ (~context_initialized[c] /\ multi_clients /\ protocol_version[c] < 3)
                    => /\ ev'.rcalls = << >>
                       /\ ev'.ret = "EINVAL"
                       /\ ~context_initialized'[c]
              /\ (~context_initialized[c] /\ ~(multi_clients /\ protocol_version[c] < 3))
                    => /\ Len(ev'.rcalls) = 1
                       /\ (ev'.rcalls[1].fn = "context_create_with_flags")
                             <=> (capset_id'[c] # 0)
                       /\ ev'.rcalls[1].fn \in ContextCreateFns
                       /\ context_initialized'[c] = ev'.rcalls[1].ok
        /\ \A d \in CtxIds :
              /\ (multi_clients /\ context_initialized'[d]) => protocol_version'[d] >= 3
              /\ (context_initialized[d] /\ ~context_initialized'[d])
                    => (ev'.op = "create_context" /\ ev'.ctx = d)
              /\ (~context_initialized[d] /\ context_initialized'[d])
                    => (LazyInitRan(ev') /\ ev'.ctx = d)
        /\ ev'.op = "destroy_context"
              => (ev'.rcalls # << >>) = context_initialized[c]
        /\ ev'.op = "destroy_context" /\ ev'.rcalls # << >>
              => ev'.rcalls = << [ fn |-> "context_destroy", ctx |-> c, ok |-> TRUE ] >>
      ]_vars

\* vtest_lazy_init_context ran on a context created with flags and made no
\* call.
C25_SecondInitMakesNoCall ==
    /\ ev.op = "lazy_init"
    /\ ev.ret = "OK"
    /\ ev.rcalls = << >>
    /\ context_initialized[ev.ctx]
    /\ capset_id[ev.ctx] # 0

\* An initialized context was destroyed, and so was its renderer context.
InitializedDestroyed ==
    /\ ev.op = "destroy_context"
    /\ ev.rcalls # << >>

\* A context that was never initialized was destroyed without a call.
UninitializedDestroyed ==
    /\ ev.op = "destroy_context"
    /\ ev.rcalls = << >>
    /\ ~context_initialized[ev.ctx]

\* A multi-client server refused to initialize a context below protocol 3.
MultiClientInitRefused ==
    /\ multi_clients
    /\ ev.op = "lazy_init"
    /\ ev.ret = "EINVAL"

\* ---------------------------------------------------------------- C26
\* Slot k of wait w is crossed by the step: one of its signals raises the
\* slot's sync to the slot's threshold or above.
SlotCrossed(w, k) ==
    \E j \in 1 .. Len(ev'.signals) :
       /\ ev'.signals[j].sync = w.syncs[k]
       /\ SignalRaises(ev'.signals, j)
       /\ ev'.signals[j].value >= w.values[k]

\* The step's signals cross the first threshold of an ANY wait, or the
\* last outstanding thresholds of an ALL wait.
Resolving(w) ==
    IF FlagAny(w.flags)
    THEN \E k \in LiveSlots(w) : SlotCrossed(w, k)
    ELSE \A k \in LiveSlots(w) : SlotCrossed(w, k)

\* C26: a pending wait inside its deadline has its fd written in a step
\* exactly when the step's signals cross one of its outstanding thresholds
\* (ANY) or all of them (ALL); it then leaves its list and drops its
\* references, and while no such step happens its fd is not written.
C26_ResolvedByCrossingSignal ==
    [][\A c \in CtxIds : \A i \in 1 .. Len(sync_waits[c]) :
          LET w == sync_waits[c][i] IN
          Unexpired(w)
             => /\ (w.fd \in WrittenFds(ev')) <=> Resolving(w)
                /\ Resolving(w)
                      => /\ w.fd \notin FdsOf(sync_waits'[c])
                         /\ \A k \in LiveSlots(w) :
                               syncs'[w.syncs[k]].refcount < syncs[w.syncs[k]].refcount
                /\ (~Resolving(w) /\ ev'.op # "destroy_context")
                      => w.fd \in FdsOf(sync_waits'[c])]_vars

\* A write to one timeline crossed the last outstanding threshold of a
\* pending ALL wait over two timelines, and its fd was written.
C26_LastThresholdResolves ==
    /\ ev.op = "sync_write"
    /\ Len(ev.signals) = 1
    /\ Len(ev.written) = 1
    /\ ~FlagAny(ev.written[1].flags)
    /\ Len(ev.written[1].req) = 2
    /\ ev.written[1].req[1].sync # ev.written[1].req[2].sync

\* A write crossed one of the two thresholds of a pending ANY wait while
\* the other timeline was below its threshold, and its fd was written.
FirstThresholdResolves ==
    /\ ev.op = "sync_write"
    /\ Len(ev.written) = 1
    /\ FlagAny(ev.written[1].flags)
    /\ Len(ev.written[1].req) = 2
    /\ \E i \in 1 .. 2 : ev.written[1].vals[i] < ev.written[1].req[i].value

\* A write crossed one threshold of a pending ALL wait over two timelines
\* and the wait stayed.
FirstOfTwoCrossed ==
    /\ ev.op = "sync_write"
    /\ ev.written = << >>
    /\ \E c \in CtxIds : \E i \in 1 .. Len(sync_waits[c]) :
          /\ sync_waits[c][i].signaled_count = 1
          /\ sync_waits[c][i].count = 2
          /\ sync_waits[c][i].syncs[1] # sync_waits[c][i].syncs[2]

\* ---------------------------------------------------------------- C27
\* The fds of the waits on the contexts' lists.
PendingFds == UNION { FdsOf(sync_waits[c]) : c \in CtxIds }

\* How often the step wrote to fd.
TimesWritten(fd) ==
    Cardinality({ k \in 1 .. Len(ev'.written) : ev'.written[k].fd = fd })

\* C27: a step writes an fd at most once, and only the fd of a wait that
\* is on a list before the step and on none after it, or the fd of the wait
\* a SYNC_WAIT has just made and does not append; so a wait that has been
\* written is on no list and is never written again.  A pending wait that
\* becomes ready, and a SYNC_WAIT that is ready at once, is written exactly
\* once in the step that frees it.
C27_WrittenOnceThenGone ==
    [][ /\ \A k \in 1 .. Len(ev'.written) :
              LET fd == ev'.written[k].fd IN
              /\ TimesWritten(fd) = 1
              /\ fd \notin PendingFds'
              /\ \/ fd \in PendingFds
                 \/ /\ ev'.op = "sync_wait"
                    /\ fd = eventfd
        /\ \A c \in CtxIds : \A i \in 1 .. Len(sync_waits[c]) :
              LET w == sync_waits[c][i] IN
              (Unexpired(w) /\ Resolving(w)) => TimesWritten(w.fd) = 1
        /\ (WaitRequested /\ ~WaitNamesMissingSync /\ ReadyAtOnce(ev'.req))
              => TimesWritten(eventfd) = 1 ]_vars

\* A write resolved two pending waits at once: each fd was written once and
\* no list holds either.
C27_TwoWaitsWrittenOnce ==
    /\ ev.op = "sync_write"
    /\ Len(ev.written) = 2
    /\ ev.written[1].fd # ev.written[2].fd
    /\ PendingFds = { }

\* ---------------------------------------------------------------- C28
\* The step raised implicit_fence_submitted by one and gave the renderer a
\* fence tagged with the new value.
ImplicitFenceCreated ==
    /\ implicit_fence_submitted' = implicit_fence_submitted + 1
    /\ implicit_fence_submitted' \notin implicit_pending
    /\ implicit_pending' = implicit_pending \cup { implicit_fence_submitted' }

\* C28 (as stated): every SUBMIT_CMD increments implicit_fence_submitted
\* by exactly one and creates a renderer fence tagged with the new value.
C28_EverySubmitCreatesFence ==
    [][ev'.op = "submit_cmd" => ImplicitFenceCreated]_vars

\* C28 (amended): every SUBMIT_CMD that returns 0 increments
\* implicit_fence_submitted by exactly one and creates a renderer fence
\* tagged with the new value; one that fails leaves the counter and the
\* renderer's fences as they were.
C28_SuccessfulSubmitCreatesFence ==
    [][ev'.op = "submit_cmd"
          => IF ev'.ret = "OK" THEN ImplicitFenceCreated
             ELSE UNCHANGED << implicit_fence_submitted, implicit_pending >>]_vars

\* The second SUBMIT_CMD of a connection succeeded while the first fence
\* was pending: fences 1 and 2 are with the renderer.
C28_SecondFenceCreated ==
    /\ ev.op = "submit_cmd"
    /\ ev.ret = "OK"
    /\ implicit_fence_submitted = 2
    /\ implicit_pending = { 1, 2 }

\* ---------------------------------------------------------------- C29
\* A renderer call of the step reported failure.
RendererRefused(e) == \E k \in 1 .. Len(e.rcalls) : ~e.rcalls[k].ok

\* C29: when a renderer call made by a command handler reports failure,
\* the handler returns a non-zero error.
C29_RendererFailureReturned ==
    [][RendererRefused(ev') => ev'.ret # "OK"]_vars

\* The same for every handler but a TRANSFER_GET that sends data back.
FailureReturnedElsewhere ==
    [][(RendererRefused(ev') /\ ~(ev'.op = "TRANSFER_GET" /\ ev'.req[2] # 0))
          => ev'.ret # "OK"]_vars

\* A TRANSFER_GET whose virgl_renderer_transfer_read_iov failed has
\* returned 0 after sending the buffer.
FailedReadReturnedOk ==
    /\ ev.op = "TRANSFER_GET"
    /\ RendererRefused(ev)
    /\ ev.ret = "OK"
    /\ ev.resp # << >>

\* A TRANSFER_PUT whose virgl_renderer_transfer_write_iov failed has
\* returned the error.
FailedWriteReturned ==
    /\ ev.op = "TRANSFER_PUT"
    /\ RendererRefused(ev)
    /\ ev.ret = "ERR"

\* ---------------------------------------------------------------- C30
\* C30: a CREATE_CONTEXT whose name length is above 1 MiB fails and leaves
\* the free list of context records and next_context_id as they were; a
\* CREATE_CONTEXT that fails leaves active_contexts as it was and sets no
\* out_ctx; one that succeeds appends its context to active_contexts and
\* returns it; and no other step makes active_contexts longer.
C30_FailedCreateLeavesNoContext ==
    [][ /\ ev'.op = "create_context" =>
              /\ ev'.req[1] > 1024 * 1024
                    => /\ ev'.ret # "OK"
                       /\ UNCHANGED << free_contexts, next_context_id >>
              /\ ev'.ret # "OK"
                    => /\ active_contexts' = active_contexts
                       /\ ev'.arg = NULL
              /\ ev'.ret = "OK"
                    => /\ ev'.arg # NULL
                       /\ ev'.arg \notin SeqToSet(active_contexts)
                       /\ active_contexts' = Append(active_contexts, ev'.arg)
        /\ Len(active_contexts') > Len(active_contexts)
              => (ev'.op = "create_context" /\ ev'.ret = "OK") ]_vars

\* A name of more than 1 MiB was refused while a record was on the free
\* list, and the record is still there.
C30_LongNameRefused ==
    /\ ev.op = "create_context"
    /\ ev.req[1] > 1024 * 1024
    /\ ev.ret = "ERR"
    /\ free_contexts # << >>
    /\ active_contexts = << >>

\* A name that was not sent whole: the record went back to the free list.
ShortNameRefused ==
    /\ ev.op = "create_context"
    /\ ev.req[1] = 1
    /\ ev.ret = "ERR"
    /\ ev.ctx \in SeqToSet(free_contexts)
    /\ active_contexts = << >>

\* The place of address a in a queue that holds it.
PlaceOf(queue, a) == CHOOSE k \in 1 .. Len(queue) : queue[k] = a

\* How many slots of the first k entries of a queue hold sync s.
HeldByPrefix(queue, k, s) ==
    Cardinality({ sg \in { << i, j >> : i \in 1 .. k, j \in 1 .. MaxSyncs + 1 } :
                    /\ sg[2] <= Len(submits[queue[sg[1]]].syncs)
                    /\ submits[queue[sg[1]]].syncs[sg[2]] = s })

\* The step is the fence callback of the live submit a, and a stands in
\* the queue its record names.
CallbackOfQueued(a) ==
    /\ ev'.op = "fence"
    /\ ev'.arg = a
    /\ ~ev'.stale
    /\ submits[a].state = "live"
    /\ a \in SeqToSet(sync_queues[submits[a].ctx][submits[a].q])

\* C31: when the fence callback of a submit X that stands in its queue runs,
\* exactly the entries from the head of that queue up to and including X are
\* popped and freed; the signals applied are those of the popped entries, in
\* queue order and slot order, and each popped entry's references are
\* dropped; the entries behind X stay queued in their order, and every
\* other queue of every context is unchanged.
C31_CallbackPopsUpToSubmit ==
    [][\A a \in Addrs :
          CallbackOfQueued(a) =>
             LET c == submits[a].ctx
                 q == submits[a].q
                 pre == sync_queues[c][q]
                 k == PlaceOf(pre, a)
             IN  /\ ev'.popped = SubSeq(pre, 1, k)
                 /\ ev'.signals = PrefixSignals(pre, k)
                 /\ \A i \in 1 .. k : submits'[pre[i]] = NoSubmit
                 /\ \A s \in SyncIds :
                       syncs'[s].refcount <= syncs[s].refcount - HeldByPrefix(pre, k, s)
                 /\ sync_queues'[c][q] = SubSeq(pre, k + 1, Len(pre))
                 /\ \A c2 \in CtxIds, q2 \in QueueIdx :
                       << c2, q2 >> # << c, q >>
                          => sync_queues'[c2][q2] = sync_queues[c2][q2]
                 /\ \A b \in Addrs \ SeqToSet(SubSeq(pre, 1, k)) :
                       submits'[b] = submits[b]]_vars

\* The callback of one submit popped it alone while another submit stays
\* queued.
C31_HeadPoppedOtherStays ==
    /\ ev.op = "fence"
    /\ ~ev.stale
    /\ ev.popped = << ev.arg >>
    /\ Len(ev.signals) = 1
    /\ \E c \in CtxIds, q \in QueueIdx : Len(sync_queues[c][q]) = 1

\* No address twice in a sequence.
Distinct(s) == \A i, j \in 1 .. Len(s) : s[i] = s[j] => i = j

\* C32: in whatever order the renderer completes the context fences of the
\* submits of one queue, every callback reads a submit record that has not
\* been freed since its fence was created, and each record a callback frees
\* is a live one, freed once.
C32_NoCallbackReadsFreedSubmit ==
    [][ev'.op = "fence"
          => /\ ~ev'.stale
             /\ Distinct(ev'.popped)
             /\ \A i \in 1 .. Len(ev'.popped) :
                   /\ submits[ev'.popped[i]].state = "live"
                   /\ submits'[ev'.popped[i]] = NoSubmit]_vars

\* Callbacks free only live records, each once, also when they read a
\* freed one.
FreedOnce ==
    [][ev'.op = "fence"
          => /\ Distinct(ev'.popped)
             /\ \A i \in 1 .. Len(ev'.popped) :
                   /\ submits[ev'.popped[i]].state = "live"
                   /\ submits'[ev'.popped[i]] = NoSubmit]_vars

\* The fence of the first of two submits of a queue completes after the
\* second's callback freed both: its callback read a freed record.
EarlierCallbackReadFreed ==
    /\ ev.op = "fence"
    /\ ev.stale
    /\ submits[ev.arg].state = "free"

\* The fence created for the submit at address a has not completed.
FencePending(a) == \E f \in fences : f.cookie = a /\ ~f.stale

\* C33: between handlers, a queued submit whose fence callback has run is
\* in no queue: every submit standing in a queue still has its fence
\* pending, also when the renderer ran the callback inside
\* virgl_renderer_context_create_fence.
C33_CompletedSubmitNotQueued ==
    \A c \in CtxIds, q \in QueueIdx : \A i \in 1 .. Len(sync_queues[c][q]) :
       FencePending(sync_queues[c][q][i])

\* A SUBMIT_CMD2 returned 0 and left in a queue a submit whose fence has
\* completed, its value not applied to the sync.
InlineCallbackLeftSubmitQueued ==
    /\ ev.op = "submit_cmd2"
    /\ ev.ret = "OK"
    /\ \E c \in CtxIds, q \in QueueIdx :
          /\ Len(sync_queues[c][q]) = 1
          /\ ~FencePending(sync_queues[c][q][1])
          /\ LET sub == submits[sync_queues[c][q][1]] IN
             syncs[sub.syncs[1]].value < sub.values[1]

\* C34: in every state between handlers, every non-null slot (sync,
\* threshold) of every wait on a sync_waits list has the sync's value below
\* the threshold, every listed wait has signaled_count < count, and every
\* listed wait with the ANY flag has signaled_count = 0.
C34_ListedWaitsUnsatisfied ==
    \A c \in CtxIds : \A i \in 1 .. Len(sync_waits[c]) :
       LET w == sync_waits[c][i] IN
       /\ \A k \in 1 .. w.count :
             w.syncs[k] # NULL => syncs[w.syncs[k]].value < w.values[k]
       /\ w.signaled_count < w.count
       /\ FlagAny(w.flags) => w.signaled_count = 0

\* A write raised a sync without reaching the threshold a listed wait
\* holds on it, after the wait's other threshold was reached.
C34_RaisedBelowThreshold ==
    /\ ev.op = "sync_write"
    /\ ev.ret = "OK"
    /\ \E c \in CtxIds : \E i \in 1 .. Len(sync_waits[c]) :
          LET w == sync_waits[c][i] IN
          /\ w.count = 2
          /\ w.signaled_count = 1
          /\ \E k \in 1 .. 2 :
                /\ w.syncs[k] # NULL
                /\ syncs[w.syncs[k]].value > 0
                /\ ev.signals = << [ sync |-> w.syncs[k],
                                     value |-> syncs[w.syncs[k]].value ] >>

\* A listed ANY wait over two thresholds.
AnyWaitListed ==
    \E c \in CtxIds : \E i \in 1 .. Len(sync_waits[c]) :
       /\ FlagAny(sync_waits[c][i].flags)
       /\ sync_waits[c][i].count = 2

\* length_dw = 2 + 3 * k for an integer k >= 0.
WholeTriples(n) == n >= 2 /\ (n - 2) % 3 = 0

\* The step rejects the frame before it reads or changes anything.
RejectedUnread ==
    /\ ev'.ret = "EINVAL"
    /\ ev'.nread = 0
    /\ UNCHANGED << syncs, free_syncs, sync_waits, sync_table >>

\* The pairs of the request the step just took: those of the wait it
\* listed or wrote.
TakenPairs(c) ==
    IF Len(sync_waits'[c]) > Len(sync_waits[c])
    THEN { Len(sync_waits'[c][Len(sync_waits'[c])].req) }
    ELSE { Len(ev'.written[k].req) : k \in 1 .. Len(ev'.written) }

\* What the handler does with a frame of n words it accepts: it reads the
\* n words, unless the stream ends before, and decodes (n - 2) / 3 pairs.
AcceptedWhole(n) ==
    \/ ev'.ret = "ERR" /\ ev'.nread = 0
    \/ /\ ev'.ret \in { "OK", "EEXIST", "ENODEV" }
       /\ ev'.nread = n
       /\ ev'.ret = "OK" => TakenPairs(ev'.ctx) \subseteq { (n - 2) \div 3 }

\* C35: SYNC_WAIT accepts a frame only when length_dw = 2 + 3 * k for some
\* k >= 0 and then uses sync_count = k; a frame of any other length_dw, 0
\* and 1 included, is rejected with EINVAL before any payload is read.
C35_OnlyWholeTriplesAccepted ==
    [][ev'.op = "sync_wait"
          => IF WholeTriples(hdr') THEN AcceptedWhole(hdr') ELSE RejectedUnread]_vars

\* The same for every length_dw but 1.
WholeTriplesOrOneWord ==
    [][(ev'.op = "sync_wait" /\ hdr' # 1)
          => IF WholeTriples(hdr') THEN AcceptedWhole(hdr') ELSE RejectedUnread]_vars

\* A SYNC_WAIT whose header says one word was not rejected: its word was
\* read.
OneWordWaitRead ==
    /\ ev.op = "sync_wait"
    /\ hdr = 1
    /\ ev.nread = 1
    /\ ev.ret # "EINVAL"

\* A SYNC_WAIT of eight words listed a wait over two pairs.
TwoPairWaitListed ==
    /\ ev.op = "sync_wait"
    /\ hdr = 8
    /\ ev.ret = "OK"
    /\ \E c \in CtxIds : \E i \in 1 .. Len(sync_waits[c]) :
          Len(sync_waits[c][i].req) = 2

\* The step is a resource create of any of the three commands that
\* returned 0.
CreatedResource ==
    /\ ev'.op \in { "RESOURCE_CREATE", "RESOURCE_CREATE2", "RESOURCE_CREATE_BLOB" }
    /\ ev'.req # << >>
    /\ ev'.ret = "OK"

\* The step put one record into the table of context c, under a key the
\* table did not hold, and took none out.
InsertedNewKey(c) ==
    /\ resource_table[c] \subseteq resource_table'[c]
    /\ \E a \in resource_table'[c] \ resource_table[c] :
          /\ resource_table'[c] = resource_table[c] \cup { a }
          /\ LookupResource(c, resources'[a].res_id) = { }
    /\ \A a \in resource_table[c] : resources'[a] = resources[a]

\* C36: a successful RESOURCE_CREATE, RESOURCE_CREATE2 or
\* RESOURCE_CREATE_BLOB inserts a key that was not in the context's
\* resource table and neither replaces nor destroys the entry of a live
\* resource, whatever commands came before.
C36_CreateInsertsNewKey ==
    [][CreatedResource => InsertedNewKey(ev'.ctx)]_vars

\* Every key of the table of context c is the server's id of its record.
ServerKeysOnly(c) ==
    \A a \in resource_table[c] : resources[a].res_id = resources[a].server_res_id

ServerKeysOnlyAfter(c) ==
    \A a \in resource_table'[c] : resources'[a].res_id = resources'[a].server_res_id

\* The same while the table holds no key a client chose and the request
\* names none.
NewKeyAmongServerKeys ==
    [][(CreatedResource /\ ServerKeysOnly(ev'.ctx) /\ ServerKeysOnlyAfter(ev'.ctx))
          => InsertedNewKey(ev'.ctx)]_vars

\* A create with handle 0 took the place of a live resource that a client
\* had created under the same number: the renderer was told to drop it.
CreateReplacedLiveResource ==
    /\ ev.op = "RESOURCE_CREATE"
    /\ ev.ret = "OK"
    /\ ev.arg = 0
    /\ Len(ev.rcalls) = 2
    /\ ev.rcalls[2].fn = "resource_unref"
    /\ Cardinality(resource_table[ev.ctx]) = 1
    /\ free_resources # << >>

\* The sync ids a request names: the id of a SYNC_READ or SYNC_WRITE, the
\* ids of the pairs of a SYNC_WAIT, the ids of the batch of a SUBMIT_CMD2.
NamedSyncs(e) ==
    IF e.op \in { "sync_read", "sync_write" }
    THEN IF e.ret = "OK" /\ e.op = "sync_write"
         THEN { e.signals[k].sync : k \in 1 .. Len(e.signals) }
         ELSE { e.arg }
    ELSE IF e.op = "sync_wait"
    THEN { WaitPairs(e.req)[i].sync : i \in 1 .. Len(WaitPairs(e.req)) }
    ELSE BatchSyncIds(e.req)

\* The step is one of the four sync commands, read whole, on a context.
SyncCommand ==
    /\ ev'.op \in { "sync_read", "sync_write", "sync_wait", "submit_cmd2" }
    /\ ev'.nread > 0
    /\ ev'.ret \in { "OK", "EEXIST" }

\* The contexts whose syncs the step signals: the one the handler runs on,
\* or the one whose queue a fence callback walks.
Signallers ==
    IF ev'.op = "fence"
    THEN { submits[ev'.popped[k]].ctx : k \in 1 .. Len(ev'.popped) }
    ELSE { ev'.ctx }

\* The wait w of context b is still on b's list, its slots and its count
\* of reached slots as they were.
StillListed(b, w) ==
    \E j \in 1 .. Len(sync_waits'[b]) :
       /\ sync_waits'[b][j].fd = w.fd
       /\ sync_waits'[b][j].syncs = w.syncs
       /\ sync_waits'[b][j].signaled_count = w.signaled_count

\* C37: a SYNC_READ, SYNC_WRITE, SYNC_WAIT or SUBMIT_CMD2 on context A that
\* names a sync id A's table does not hold fails with EEXIST, one that
\* succeeds touches syncs of A's table only, and a signal on a sync of A
\* neither writes the event fd nor changes the slots of a wait of another
\* context B: a wait of B either stays as it was or is past its deadline
\* and dropped.
C37_SyncsIsolatedByContext ==
    [][/\ SyncCommand =>
             /\ (NamedSyncs(ev') \ sync_table[ev'.ctx] # { }) => ev'.ret = "EEXIST"
             /\ \A k \in 1 .. Len(ev'.signals) :
                   ev'.signals[k].sync \in sync_table[ev'.ctx]
             /\ \A s \in SyncIds \ sync_table[ev'.ctx] :
                   syncs'[s].value = syncs[s].value
       /\ ev'.signals # << >> =>
             \A b \in CtxIds \ Signallers : \A i \in 1 .. Len(sync_waits[b]) :
                LET w == sync_waits[b][i] IN
                /\ w.fd \notin WrittenFds(ev')
                /\ StillListed(b, w) \/ PastDeadline(w, now)]_vars

\* A write on one context named the other context's sync and was refused,
\* a wait of the other context on that sync staying listed.
C37_ForeignSyncRefused ==
    /\ ev.op = "sync_write"
    /\ ev.ret = "EEXIST"
    /\ \E b \in CtxIds \ { ev.ctx } :
          /\ ev.arg \in sync_table[b]
          /\ \E i \in 1 .. Len(sync_waits[b]) : ev.arg \in SeqToSet(sync_waits[b][i].syncs)

\* A write on one context raised its own sync while a wait of the other
\* context stayed listed.
OwnSyncRaisedBesideWait ==
    /\ ev.op = "sync_write"
    /\ ev.ret = "OK"
    /\ Len(ev.signals) = 1
    /\ syncs[ev.signals[1].sync].value = 1
    /\ \E b \in CtxIds \ { ev.ctx } : sync_waits[b] # << >>

\* A write collected a wait past its deadline while both contexts were
\* connected.
ForeignExpiredWaitCollected ==
    /\ ev.op = "sync_write"
    /\ ev.ret = "OK"
    /\ ev.collected # << >>
    /\ Len(active_contexts) = MaxContexts

\* C38: a successful SYNC_CREATE answers with the id of a record nobody
\* holds: its refcount was 0, no sync table, no queued submit and no pending
\* wait named it, also when SYNC_UNREF had taken a sync that is still held
\* out of its table; the record, new or taken from the free list, then has
\* refcount 1 and the requested value.
C38_CreatedSyncIdUnheld ==
    [][(ev'.op = "sync_create" /\ ev'.ret = "OK") =>
          LET r == ev'.resp[1] IN
          /\ syncs[r].refcount = 0
          /\ TableHolders(r) = { }
          /\ SubmitHolders(r) = { }
          /\ WaitHolders(r) = { }
          /\ syncs'[r].refcount = 1
          /\ syncs'[r].value = DecodeValue(shadow'[r][1], shadow'[r][2])
          /\ sync_table'[ev'.ctx] = sync_table[ev'.ctx] \cup { r }]_vars

\* A SYNC_CREATE answered while a sync that SYNC_UNREF took out of its
\* table was still held: the answer is another id.
C38_HeldSyncNotReused ==
    /\ ev.op = "sync_create"
    /\ ev.ret = "OK"
    /\ \E s \in SyncIds \ { ev.resp[1] } :
          /\ TableHolders(s) = { }
          /\ syncs[s].refcount > 0

\* A SYNC_CREATE answered with a recycled id: a later id had been handed
\* out before.
RecycledSyncCreated ==
    /\ ev.op = "sync_create"
    /\ ev.ret = "OK"
    /\ ev.resp[1] < next_sync_id - 1
    /\ syncs[ev.resp[1]].refcount = 1

\* The step is a CREATE_CONTEXT that succeeded.
ContextCreated == ev'.op = "create_context" /\ ev'.ret = "OK"

\* C39: the context a successful CREATE_CONTEXT returns, on a new record
\* as on one taken from the free list, has protocol_version 0, capset_id 0,
\* context_initialized false, empty resource and sync tables, all its sync
\* queues empty and no pending wait; and no ctx_id stands twice in
\* active_contexts.
C39_NewContextStartsEmpty ==
    [][/\ Distinct(active_contexts')
       /\ ContextCreated =>
             LET c == ev'.arg IN
             /\ c \notin SeqToSet(active_contexts)
             /\ c \in SeqToSet(active_contexts')
             /\ protocol_version'[c] = 0
             /\ capset_id'[c] = 0
             /\ ~context_initialized'[c]
             /\ resource_table'[c] = { }
             /\ sync_table'[c] = { }
             /\ DOMAIN sync_queues'[c] = 0 .. (VTEST_MAX_SYNC_QUEUE_COUNT - 1)
             /\ \A q \in QueueIdx : sync_queues'[c][q] = << >>
             /\ sync_waits'[c] = << >>]_vars

\* A connection was given a recycled record while a younger record was
\* still connected, after a destroy had released syncs and resources.
C39_RecycledBesideLive ==
    /\ ev.op = "create_context"
    /\ ev.ret = "OK"
    /\ Len(active_contexts) = 2
    /\ active_contexts[2] = ev.arg
    /\ ev.arg < active_contexts[1]
    /\ free_syncs # << >>
    /\ free_resources # << >>
    /\ protocol_version[active_contexts[1]] # 0

\* A connection closed with a queued submit, a pending wait, a sync and a
\* resource while the other stayed open: its record goes to the free list.
ClosedWithWorkBesideLive ==
    /\ ev.op = "destroy_context"
    /\ ev.freed.submits # << >>
    /\ ev.freed.waits # << >>
    /\ free_resources # << >>
    /\ Len(active_contexts) = 1
    /\ free_contexts = << ev.ctx >>

====
